---- MODULE Spec2Model ----
(***************************************************************************)
(* A model of the MoMo SMS ETL pipeline (momo-sms-analyzer/etl):           *)
(* the record extractor (parse_xml.py), the field normalizer               *)
(* (clean_normalize.py), the categorizer (categorize.py), the SQLite store *)
(* (load_db.py) and the pipeline runner (run.py).                          *)
(*                                                                         *)
(* Python values are tagged records, so that values of different Python    *)
(* types are always distinguishable and comparable:                        *)
(*   None        [none  |-> TRUE]                                          *)
(*   str         [str   |-> <<"a", "b">>]   a sequence of characters       *)
(*   int         [int   |-> n]                                             *)
(*   float       [float |-> h]              h counts hundredths            *)
(*   float nan   [nan   |-> TRUE]                                          *)
(*   float inf   [inf   |-> 1] or [inf |-> -1]                             *)
(*   datetime    [datetime |-> t]           t counts milliseconds          *)
(* A Python dict is a function whose DOMAIN is the set of its keys.        *)
(* An instant is a number of milliseconds; the model's epoch is a local    *)
(* midnight and its instants are small.                                    *)
(***************************************************************************)
EXTENDS Integers, Sequences, FiniteSets, TLC

VARIABLES
    clock,        \* the wall clock read by datetime.now(), in milliseconds
    store,        \* the rows of table transactions, in rowid order
    last_insert,  \* what the last insert_transactions call did
    dead_letter,  \* the dead-letter directory: file name -> failed record
    parse_run,    \* the state of one parse_xml_file call
    pipeline,     \* the state of one run_full_pipeline call
    passes,       \* the batches passed through clean, categorize and load
    id_calls,     \* the generate_transaction_id calls made so far
    call,         \* one call of a function: its name, argument and result
    writers       \* the processes that upsert at the same time, each at its step

vars ==
    <<clock, store, last_insert, dead_letter, parse_run, pipeline, passes, id_calls, call,
      writers>>

-----------------------------------------------------------------------------
(* Bounds of the model.                                                    *)

MaxClock == 1      \* the clock stops advancing here
MaxBatch == 2      \* records per insert_transactions batch
MaxCalls == 3      \* generate_transaction_id calls made in one behaviour
MaxPasses == 2     \* passes of a batch through clean, categorize and load
MaxDoc == 3        \* sms entries per input document

-----------------------------------------------------------------------------
(* Python values.                                                          *)

None == [none |-> TRUE]
PyStr(s) == [str |-> s]
PyInt(n) == [int |-> n]
PyFloat(h) == [float |-> h]
PyNaN == [nan |-> TRUE]
EmptyStr == PyStr(<<>>)
PyBool(b) == [bool |-> b]

\* type(v): the tag of a value
Kind(v) ==
    CASE "str" \in DOMAIN v -> "str"
      [] "float" \in DOMAIN v -> "float"
      [] "none" \in DOMAIN v -> "none"
      [] "int" \in DOMAIN v -> "int"
      [] "nan" \in DOMAIN v -> "nan"
      [] "inf" \in DOMAIN v -> "inf"
      [] "datetime" \in DOMAIN v -> "datetime"
      [] "raise" \in DOMAIN v -> "raise"

\* An exception raised instead of a value returned.
Raise(name) == [raise |-> name]
Raised(r) == DOMAIN r = {"raise"}

\* bool(v): None, '', 0 and 0.0 are false; nan and inf are true.
Truthy(v) ==
    CASE Kind(v) = "none" -> FALSE
      [] Kind(v) = "str" -> v.str # <<>>
      [] Kind(v) = "int" -> v.int # 0
      [] Kind(v) = "float" -> v.float # 0
      [] OTHER -> TRUE

\* dict.get(key, default)
Get(d, key, default) == IF key \in DOMAIN d THEN d[key] ELSE default

\* d with d[key] = value set
Put(d, key, value) == (key :> value) @@ d

-----------------------------------------------------------------------------
(* Characters and strings.                                                 *)

DigitChars == <<"0", "1", "2", "3", "4", "5", "6", "7", "8", "9">>
IsDigit(c) == \E i \in 1..10 : DigitChars[i] = c
DigitVal(c) == (CHOOSE i \in 1..10 : DigitChars[i] = c) - 1
IsSpace(c) == c \in {" ", "\t", "\n"}

LowerChars == <<"a", "b", "c", "d", "e", "f", "g", "h", "i", "j", "k", "l", "m",
                "n", "o", "p", "q", "r", "s", "t", "u", "v", "w", "x", "y", "z">>
UpperChars == <<"A", "B", "C", "D", "E", "F", "G", "H", "I", "J", "K", "L", "M",
                "N", "O", "P", "Q", "R", "S", "T", "U", "V", "W", "X", "Y", "Z">>
IsLetter(c) == \E i \in 1..26 : LowerChars[i] = c \/ UpperChars[i] = c

\* str.lower(), character by character
LowerChar(c) ==
    IF \E i \in 1..26 : UpperChars[i] = c
    THEN LowerChars[CHOOSE i \in 1..26 : UpperChars[i] = c]
    ELSE c
Lower(s) == [i \in 1..Len(s) |-> LowerChar(s[i])]

StartsWith(s, p) == Len(p) <= Len(s) /\ SubSeq(s, 1, Len(p)) = p

\* needle in s  (Python's substring test)
Contains(s, needle) ==
    \E i \in 0..(Len(s) - Len(needle)) : SubSeq(s, i + 1, i + Len(needle)) = needle

\* str.strip()
RECURSIVE LStrip(_)
LStrip(s) == IF s # <<>> /\ IsSpace(Head(s)) THEN LStrip(Tail(s)) ELSE s
RECURSIVE RStrip(_)
RStrip(s) ==
    IF s # <<>> /\ IsSpace(s[Len(s)]) THEN RStrip(SubSeq(s, 1, Len(s) - 1)) ELSE s
Strip(s) == RStrip(LStrip(s))

\* sep.join(parts)
RECURSIVE Join(_, _)
Join(parts, sep) ==
    IF parts = <<>> THEN <<>>
    ELSE IF Len(parts) = 1 THEN parts[1]
    ELSE parts[1] \o sep \o Join(Tail(parts), sep)

\* the decimal digits of a natural number
RECURSIVE NatStr(_)
NatStr(n) ==
    IF n < 10 THEN <<DigitChars[n + 1]>>
    ELSE NatStr(n \div 10) \o <<DigitChars[(n % 10) + 1]>>
IntStr(n) == IF n < 0 THEN <<"-">> \o NatStr(0 - n) ELSE NatStr(n)

\* the value of a non-empty sequence of digits
RECURSIVE DigitsVal(_)
DigitsVal(s) ==
    IF s = <<>> THEN 0
    ELSE DigitsVal(SubSeq(s, 1, Len(s) - 1)) * 10 + DigitVal(s[Len(s)])
AllDigits(s) == \A i \in 1..Len(s) : IsDigit(s[i])

-----------------------------------------------------------------------------
(* Numbers and dates.                                                      *)

\* float(s) for a string s: surrounding whitespace, a sign, then nan, inf or
\* a decimal literal (digits, '.', digits); anything else is a ValueError.
\* The value keeps two fraction digits.
ParseFloat(chars) ==
    LET s == Strip(chars)
        signed == s # <<>> /\ s[1] \in {"+", "-"}
        sign == IF signed /\ s[1] = "-" THEN -1 ELSE 1
        body == IF signed THEN Tail(s) ELSE s
        dots == {i \in 1..Len(body) : body[i] = "."}
        dot == IF dots = {} THEN Len(body) + 1
               ELSE CHOOSE i \in dots : \A j \in dots : i <= j
        whole == SubSeq(body, 1, dot - 1)
        frac == SubSeq(body, dot + 1, Len(body))
        frac2 == SubSeq(frac \o <<"0", "0">>, 1, 2)
    IN  CASE Lower(body) = <<"n", "a", "n">> -> PyNaN
          [] Lower(body) \in {<<"i", "n", "f">>,
                              <<"i", "n", "f", "i", "n", "i", "t", "y">>} ->
                [inf |-> sign]
          [] AllDigits(whole) /\ AllDigits(frac) /\ whole \o frac # <<>> ->
                PyFloat(sign * (DigitsVal(whole) * 100 + DigitsVal(frac2)))
          [] OTHER -> Raise("ValueError")

\* int(s) for a string s: surrounding whitespace, a sign, decimal digits;
\* anything else is a ValueError.
ParseInt(chars) ==
    LET s == Strip(chars)
        signed == s # <<>> /\ s[1] \in {"+", "-"}
        body == IF signed THEN Tail(s) ELSE s
    IN  IF body # <<>> /\ AllDigits(body)
        THEN PyInt(IF signed /\ s[1] = "-" THEN 0 - DigitsVal(body) ELSE DigitsVal(body))
        ELSE Raise("ValueError")

\* float(v)
ToFloat(v) ==
    CASE Kind(v) = "int" -> PyFloat(v.int * 100)
      [] Kind(v) \in {"float", "nan", "inf"} -> v
      [] Kind(v) = "str" -> ParseFloat(v.str)
      [] OTHER -> Raise("TypeError")

\* str(v)
ToStr(v) ==
    CASE Kind(v) = "str" -> v.str
      [] Kind(v) = "int" -> IntStr(v.int)
      [] Kind(v) = "float" ->
            LET a == IF v.float < 0 THEN 0 - v.float ELSE v.float
                f == a % 100
            IN  (IF v.float < 0 THEN <<"-">> ELSE <<>>) \o NatStr(a \div 100) \o <<".">>
                \o (IF f % 10 = 0 THEN NatStr(f \div 10)
                    ELSE <<DigitChars[(f \div 10) + 1], DigitChars[(f % 10) + 1]>>)
      [] Kind(v) = "nan" -> <<"n", "a", "n">>
      [] Kind(v) = "inf" ->
            (IF v.inf < 0 THEN <<"-">> ELSE <<>>) \o <<"i", "n", "f">>
      [] Kind(v) = "none" -> <<"N", "o", "n", "e">>

\* v <= 0 for a float v: false for nan, as every comparison with nan is
FloatLeZero(v) ==
    CASE Kind(v) = "float" -> v.float <= 0
      [] Kind(v) = "inf" -> v.inf < 0
      [] Kind(v) = "nan" -> FALSE

\* datetime.isoformat() of the instant t. The calendar rendering
\* 'YYYY-MM-DDTHH:MM:SS.ffffff' is abstracted to the letter T followed by
\* the instant's millisecond count: like isoformat() it determines the instant.
IsoFormat(t) == PyStr(<<"T">> \o IntStr(t))

\* dateutil's parser.parse(s): the instant of a date string, or a ValueError.
\* A date string is an ISO rendering (T...) or another rendering of an
\* instant (D..., standing for forms such as 'Oct 15 2023 2:30 PM').
ParseDate(chars) ==
    LET neg == Len(chars) >= 2 /\ chars[2] = "-"
        digits == SubSeq(chars, IF neg THEN 3 ELSE 2, Len(chars))
    IN  IF chars # <<>> /\ chars[1] \in {"T", "D"} /\ digits # <<>> /\ AllDigits(digits)
        THEN [datetime |-> IF neg THEN 0 - DigitsVal(digits) ELSE DigitsVal(digits)]
        ELSE Raise("ValueError")

\* SQLite's CURRENT_TIMESTAMP: the time to the second, in its own rendering
\* ('YYYY-MM-DD HH:MM:SS'), abstracted to the letter S and the second count.
CurrentTimestamp(now) == PyStr(<<"S">> \o IntStr(now \div 1000))

-----------------------------------------------------------------------------
(* The store: table transactions of the SQLite database (load_db.py).      *)

LitUGX == PyStr(<<"U", "G", "X">>)
LitSUCCESS == PyStr(<<"S", "U", "C", "C", "E", "S", "S">>)
LitUNKNOWN == PyStr(<<"U", "N", "K", "N", "O", "W", "N">>)
LitOTHER == PyStr(<<"O", "T", "H", "E", "R">>)

\* DB_TABLES['transactions']: the columns, those declared NOT NULL, those of
\* REAL affinity, and the value a column takes when an INSERT names no value
\* for it (its DEFAULT, else NULL). NULL is None.
Columns ==
    {"id", "transaction_id", "amount", "currency", "transaction_date",
     "transaction_type", "category", "sender_phone", "receiver_phone",
     "sender_network", "receiver_network", "description", "balance_before",
     "balance_after", "fees", "status", "created_at", "updated_at"}
NotNullColumns ==
    {"transaction_id", "amount", "transaction_date", "transaction_type", "category"}
RealColumns == {"amount", "balance_before", "balance_after", "fees"}
ColumnDefault(col, now) ==
    CASE col = "currency" -> LitUGX
      [] col = "fees" -> PyFloat(0)
      [] col = "status" -> LitSUCCESS
      [] col \in {"created_at", "updated_at"} -> CurrentTimestamp(now)
      [] OTHER -> None

\* The value SQLite stores for a bound Python value: a nan is stored as NULL,
\* and an integer in a REAL column as a float.
Stored(col, v) ==
    CASE Kind(v) = "nan" -> None
      [] Kind(v) = "int" /\ col \in RealColumns -> PyFloat(v.int * 100)
      [] OTHER -> v

\* The dict literal of _prepare_transaction_data, before its None values are
\* removed: the value the record carries for each column.
TransactionData(t, now) ==
    LET OptFloat(key, absent) ==
            IF Truthy(Get(t, key, None)) THEN ToFloat(Get(t, key, PyInt(0))) ELSE absent
    IN  [transaction_id |-> Get(t, "transaction_id", EmptyStr),
         amount |-> ToFloat(Get(t, "amount", PyInt(0))),
         currency |-> Get(t, "currency", LitUGX),
         transaction_date |-> Get(t, "transaction_date", IsoFormat(now)),
         transaction_type |-> Get(t, "transaction_type", LitUNKNOWN),
         category |-> Get(t, "category", LitOTHER),
         sender_phone |-> Get(t, "sender_phone", EmptyStr),
         receiver_phone |-> Get(t, "receiver_phone", EmptyStr),
         sender_network |-> Get(t, "sender_network", EmptyStr),
         receiver_network |-> Get(t, "receiver_network", EmptyStr),
         description |-> Get(t, "description", EmptyStr),
         balance_before |-> OptFloat("balance_before", None),
         balance_after |-> OptFloat("balance_after", None),
         fees |-> OptFloat("fees", PyInt(0)),
         status |-> Get(t, "status", LitSUCCESS),
         created_at |-> Get(t, "created_at", IsoFormat(now))]

\* _prepare_transaction_data: the dict without its None values, or the
\* exception a float() conversion raised.
PrepareTransactionData(t, now) ==
    LET WithoutNone(data) ==
            IF \E k \in DOMAIN data : Raised(data[k])
            THEN Raise("ValueError")
            ELSE [k \in {c \in DOMAIN data : data[c] # None} |-> data[k]]
    IN  WithoutNone(TransactionData(t, now))

\* Mutant: the look-up never finds the row.
SelectId_NeverFinds(rows, tid) == 0

\* SELECT id FROM transactions WHERE transaction_id = ?: the index of the
\* row found, or 0 (fetchone() returned None). NULL equals nothing.
SelectId(rows, tid) ==
    IF tid # None /\ \E i \in 1..Len(rows) : rows[i].transaction_id = tid
    THEN CHOOSE i \in 1..Len(rows) : rows[i].transaction_id = tid
    ELSE 0

\* The NOT NULL and UNIQUE constraints on the table with row at position i.
ConstraintsHold(rows, i, row) ==
    /\ \A c \in NotNullColumns : row[c] # None
    /\ \A j \in 1..Len(rows) : j # i => rows[j].transaction_id # row.transaction_id

\* INSERT INTO transactions (data's columns) VALUES (...): the new table,
\* or an IntegrityError. The rowid is the next AUTOINCREMENT value.
SqlInsert(rows, data, now) ==
    LET Add(row) ==
            IF ConstraintsHold(rows, Len(rows) + 1, row)
            THEN [rows |-> Append(rows, row)]
            ELSE Raise("IntegrityError")
    IN  Add([c \in Columns |->
                IF c = "id" THEN PyInt(Len(rows) + 1)
                ELSE IF c \in DOMAIN data THEN Stored(c, data[c])
                ELSE ColumnDefault(c, now)])

\* UPDATE transactions SET (data's columns) WHERE id = rows[i].id
SqlUpdate(rows, i, data) ==
    LET Set(row) ==
            IF ConstraintsHold(rows, i, row)
            THEN [rows |-> [rows EXCEPT ![i] = row]]
            ELSE Raise("IntegrityError")
    IN  Set([c \in Columns |->
                IF c \in DOMAIN data THEN Stored(c, data[c]) ELSE rows[i][c]])

\* _upsert_transaction: the table afterwards, whether the call returned
\* True, and whether its SELECT found a row.
UpsertTransaction(rows, t, now) ==
    IF "transaction_id" \notin DOMAIN t
    THEN [rows |-> rows, ok |-> FALSE, existing |-> 0]      \* KeyError
    ELSE
        LET Result(existing, after) ==
                IF Raised(after)
                THEN [rows |-> rows, ok |-> FALSE, existing |-> existing]
                ELSE [rows |-> after.rows, ok |-> TRUE, existing |-> existing]
            Write(existing, data) ==
                Result(existing,
                       IF Raised(data) THEN data
                       ELSE IF existing # 0
                       THEN SqlUpdate(rows, existing, Put(data, "updated_at", IsoFormat(now)))
                       ELSE SqlInsert(rows, data, now))
        IN  Write(SelectId(rows, t.transaction_id), PrepareTransactionData(t, now))

\* _upsert_transaction after its SELECT has returned existing: the INSERT or
\* UPDATE on the table as it is now; began tells whether a statement ran (and
\* opened a transaction).
WriteTransaction(rows, t, existing, now) ==
    LET Result(data, after) ==
            [rows |-> IF Raised(after) THEN rows ELSE after.rows,
             ok |-> ~Raised(after), began |-> ~Raised(data)]
        Write(data) ==
            Result(data,
                   IF Raised(data) THEN data
                   ELSE IF existing # 0
                   THEN SqlUpdate(rows, existing, Put(data, "updated_at", IsoFormat(now)))
                   ELSE SqlInsert(rows, data, now))
    IN  Write(PrepareTransactionData(t, now))

\* insert_transactions: the table afterwards, the count returned, and what
\* the upsert of the batch's last record did (last): the record, whether its
\* id was in the table before that upsert, whether the upsert returned True,
\* the number of rows before and after it, and the row of that id after it.
RECURSIVE InsertLoop(_, _, _, _, _)
InsertLoop(rows, transactions, now, count, last) ==
    IF transactions = <<>>
    THEN [rows |-> rows, count |-> count, last |-> last]
    ELSE
        LET Seen(t, u, at) ==
                [t |-> t, ok |-> u.ok,
                 present |-> "transaction_id" \in DOMAIN t /\
                     \E i \in 1..Len(rows) : rows[i].transaction_id = t.transaction_id,
                 rows_before |-> Len(rows), rows_after |-> Len(u.rows),
                 row |-> IF at = 0 THEN None ELSE u.rows[at]]
            Step(t, u) ==
                InsertLoop(u.rows, Tail(transactions), now,
                           IF u.ok THEN count + 1 ELSE count,
                           Seen(t, u, IF "transaction_id" \in DOMAIN t
                                      THEN SelectId(u.rows, t.transaction_id) ELSE 0))
        IN  Step(Head(transactions), UpsertTransaction(rows, Head(transactions), now))

\* Mutant: one failed upsert rolls the whole batch back.
InsertTransactions_AllOrNothing(rows, transactions, now) ==
    LET Outcome(r) ==
            IF r.count < Len(transactions)
            THEN [rows |-> rows, count |-> 0, last |-> r.last]
            ELSE r
    IN  Outcome(InsertLoop(rows, transactions, now, 0, None))

\* insert_transactions, for a batch that is not empty
InsertTransactions(rows, transactions, now) ==
    InsertLoop(rows, transactions, now, 0, None)

\* The sum of a sequence of finite floats, in hundredths
RECURSIVE SumHundredths(_)
SumHundredths(values) ==
    IF values = <<>> THEN 0 ELSE Head(values).float + SumHundredths(Tail(values))

\* SQL SUM(col) over rows: NULL without a number to add; inf - inf is nan,
\* which SQLite hands back as NULL.
SqlSum(rows, col) ==
    LET IsFinite(row) == Kind(row[col]) = "float"
        Has(sign) == \E i \in 1..Len(rows) : rows[i][col] = [inf |-> sign]
        Total(finite) ==
            CASE Has(1) /\ Has(-1) -> None
              [] Has(1) -> [inf |-> 1]
              [] Has(-1) -> [inf |-> -1]
              [] finite = <<>> -> None
              [] OTHER -> PyFloat(SumHundredths([i \in 1..Len(finite) |-> finite[i][col]]))
    IN  Total(SelectSeq(rows, IsFinite))

\* The length of a calendar month in milliseconds. Months are shortened to
\* 10^8 ms, all alike, so that more than 12 of them fit the integers of the
\* model checker; only the division of time into consecutive months counts.
MsPerMonth == 100000000

\* strftime('%Y-%m', transaction_date): the month of an ISO date, as the
\* count of months since the epoch; NULL for a value that is no ISO date.
StrftimeMonth(date) ==
    IF Kind(date) = "str" /\ date.str # <<>> /\ date.str[1] = "T"
          /\ ~Raised(ParseDate(date.str))
    THEN PyInt(ParseDate(date.str).datetime \div MsPerMonth)
    ELSE None

\* ORDER BY COUNT(*) DESC
ByCountDesc(h, g) ==
    h.count > g.count \/ (h.count = g.count /\ h.first < g.first)

\* ORDER BY month DESC: NULL comes last.
ByMonthDesc(h, g) ==
    CASE h.key = None -> FALSE
      [] g.key = None -> TRUE
      [] OTHER -> h.key.int > g.key.int

\* Mutant: every group counts one row.
Groups_CountsOne(rows, keys) ==
    LET keyed == [i \in 1..Len(rows) |-> [key |-> keys[i], amount |-> rows[i].amount]]
        Group(k, members, first) ==
            [key |-> k, count |-> 1, amount |-> SqlSum(members, "amount"), first |-> first]
    IN  { Group(k, SelectSeq(keyed, LAMBDA row : row.key = k),
                CHOOSE i \in 1..Len(keys) :
                    keys[i] = k /\ \A j \in 1..(i - 1) : keys[j] # k) :
            k \in {keys[i] : i \in 1..Len(keys)} }

\* SELECT key, COUNT(*), SUM(amount) FROM rows GROUP BY key, for the key of
\* each row in keys: one group per key, with the position of its first row.
Groups(rows, keys) ==
    LET keyed == [i \in 1..Len(rows) |-> [key |-> keys[i], amount |-> rows[i].amount]]
        Group(k, members, first) ==
            [key |-> k, count |-> Len(members), amount |-> SqlSum(members, "amount"),
             first |-> first]
    IN  { Group(k, SelectSeq(keyed, LAMBDA row : row.key = k),
                CHOOSE i \in 1..Len(keys) :
                    keys[i] = k /\ \A j \in 1..(i - 1) : keys[j] # k) :
            k \in {keys[i] : i \in 1..Len(keys)} }

\* The groups as the list of dicts a query gives: by month or by count, cut
\* to limit entries, the key under its name. (SQL leaves the order of groups
\* of equal count open; they are taken in the order of their first rows.)
Listed(groups, name, order, limit) ==
    LET Before(h, g) == IF order = "month" THEN ByMonthDesc(h, g) ELSE ByCountDesc(h, g)
        Rank(g) == 1 + Cardinality({h \in groups : Before(h, g)})
        Entry(g) == (name :> g.key) @@ [count |-> g.count, amount |-> g.amount]
        n == IF Cardinality(groups) < limit THEN Cardinality(groups) ELSE limit
    IN  [p \in 1..n |-> Entry(CHOOSE g \in groups : Rank(g) = p)]

\* Mutant: the totals are taken with the WHERE clause of the network query.
GetAnalyticsData_NetworkRowsOnly(rows, db_error) ==
    LET OrZero(v) == IF v = None \/ ~Truthy(v) THEN PyInt(0) ELSE v
        Totals(with_network) ==
            [total_transactions |-> OrZero(PyInt(Len(with_network))),
             total_amount |-> OrZero(SqlSum(with_network, "amount"))]
    IN  IF db_error THEN <<>>
        ELSE Totals(SelectSeq(rows, LAMBDA row :
                        row.sender_network \notin {None, EmptyStr}))

\* get_analytics_data: the totals, the breakdowns by category, by type and by
\* sender network (rows without network left out) and the 12 latest months;
\* {} when sqlite3 raises (db_error: the database cannot be opened or read).
GetAnalyticsData(rows, db_error) ==
    LET OrZero(v) == IF v = None \/ ~Truthy(v) THEN PyInt(0) ELSE v
        unlimited == Len(rows) + 1
        Column(table, col) == [i \in 1..Len(table) |-> table[i][col]]
        ByNetwork(with_network) ==
            Listed(Groups(with_network, Column(with_network, "sender_network")),
                   "network", "count", unlimited)
    IN  IF db_error THEN <<>>
        ELSE [total_transactions |-> OrZero(PyInt(Len(rows))),
              total_amount |-> OrZero(SqlSum(rows, "amount")),
              by_category |->
                  Listed(Groups(rows, Column(rows, "category")), "category", "count",
                         unlimited),
              by_type |->
                  Listed(Groups(rows, Column(rows, "transaction_type")), "type", "count",
                         unlimited),
              by_network |->
                  ByNetwork(SelectSeq(rows, LAMBDA row :
                                row.sender_network \notin {None, EmptyStr})),
              monthly_trends |->
                  Listed(Groups(rows, [i \in 1..Len(rows) |->
                                          StrftimeMonth(rows[i].transaction_date)]),
                         "month", "month", 12)]

-----------------------------------------------------------------------------
(* The record extractor (parse_xml.py). An sms element is the dict of its  *)
(* attributes. A document is [kind |-> "xml", sms |-> the sms elements     *)
(* under its root, in document order], [kind |-> "malformed"] (not         *)
(* well-formed XML) or [kind |-> "missing"] (no such file).                *)

\* The body of _extract_transaction_data's try block: the record, or the
\* exception int() raises on a date attribute that is no integer.
\* int(timestamp) / 1000 seconds is the instant of timestamp milliseconds.
ExtractTransactionBody(sms_element, now) ==
    LET sender == Get(sms_element, "address", EmptyStr)
        timestamp == Get(sms_element, "date", EmptyStr)
        body == Get(sms_element, "body", EmptyStr)
        Record(millis) ==
            IF Raised(millis) THEN millis
            ELSE [raw_sender |-> sender,
                  transaction_date |-> IsoFormat(millis.int),
                  raw_body |-> body,
                  parsed_at |-> IsoFormat(now)]
    IN  Record(IF Truthy(timestamp) THEN ParseInt(timestamp.str) ELSE PyInt(now))

\* _extract_transaction_data: every exception of the body is caught and
\* None is returned instead.
ExtractTransactionData(sms_element, now) ==
    LET Caught(r) == IF Raised(r) THEN None ELSE r
    IN  Caught(ExtractTransactionBody(sms_element, now))

\* _save_to_dead_letter: the directory with the file written. The file is
\* named after the time to the second and holds the error message, the time
\* and the element; a file of that name is overwritten.
SaveToDeadLetter(files, element, error_msg, now) ==
    LET filename == <<"f", "a", "i", "l", "e", "d", "_", "s", "m", "s", "_">>
                    \o IntStr(now \div 1000) \o <<".", "x", "m", "l">>
    IN  Put(files, filename,
            [error |-> error_msg, timestamp |-> IsoFormat(now), element |-> element])

\* The loop of parse_xml_file over the sms elements: the transactions
\* collected, the dead-letter directory, and what _extract_transaction_data
\* returned for each element (outcomes).
RECURSIVE ParseLoop(_, _, _, _, _)
ParseLoop(elements, now, transactions, files, outcomes) ==
    IF elements = <<>>
    THEN [transactions |-> transactions, files |-> files, outcomes |-> outcomes]
    ELSE
        LET Collect(sms_element, transaction) ==
                IF Raised(transaction)
                THEN ParseLoop(Tail(elements), now, transactions,
                               SaveToDeadLetter(files, sms_element, transaction.raise, now),
                               Append(outcomes, transaction))
                ELSE ParseLoop(Tail(elements), now,
                               IF transaction # None THEN Append(transactions, transaction)
                               ELSE transactions,
                               files, Append(outcomes, transaction))
        IN  Collect(Head(elements), ExtractTransactionData(Head(elements), now))

\* Mutant: the exception of one entry leaves the loop, aborting the batch.
ParseXmlFile_Aborting(doc, files, now) ==
    CASE doc.kind = "malformed" -> Raise("ParseError")
      [] doc.kind = "missing" -> Raise("FileNotFoundError")
      [] doc.kind = "xml" ->
            IF \E k \in 1..Len(doc.sms) : Raised(ExtractTransactionBody(doc.sms[k], now))
            THEN Raise("ValueError")
            ELSE ParseLoop(doc.sms, now, <<>>, files, <<>>)

\* parse_xml_file: the list returned and the dead-letter directory, or the
\* ParseError or FileNotFoundError re-raised.
ParseXmlFile(doc, files, now) ==
    CASE doc.kind = "malformed" -> Raise("ParseError")
      [] doc.kind = "missing" -> Raise("FileNotFoundError")
      [] doc.kind = "xml" -> ParseLoop(doc.sms, now, <<>>, files, <<>>)

\* Mutant: a document without sms elements passes the check.
ValidateXmlStructure_AcceptsEmpty(doc) == doc.kind = "xml"

\* validate_xml_structure: False for a document without sms elements and
\* for any exception of the parse.
ValidateXmlStructure(doc) == doc.kind = "xml" /\ doc.sms # <<>>

\* parse_sms_transactions
ParseSmsTransactions(doc, files, now) ==
    IF ~ValidateXmlStructure(doc) THEN Raise("ValueError")
    ELSE ParseXmlFile(doc, files, now)

-----------------------------------------------------------------------------
(* The normalizer (clean_normalize.py).                                    *)

\* PHONE_PATTERNS, in the dict's order: each pattern is the optional prefix
\* (\+256|256|0)?, one of the listed two-digit codes (any two digits for
\* UNKNOWN), and seven digits.
PHONE_PATTERNS ==
    << [network |-> <<"M", "T", "N">>,
        codes |-> {<<"7", "7">>, <<"7", "8">>, <<"7", "6">>}],
       [network |-> <<"A", "I", "R", "T", "E", "L">>,
        codes |-> {<<"7", "5">>, <<"7", "0">>, <<"7", "4">>}],
       [network |-> <<"A", "F", "R", "I", "C", "E", "L", "L">>,
        codes |-> {<<"7", "9">>}],
       [network |-> LitUNKNOWN.str,
        codes |-> {<<DigitChars[i], DigitChars[j]>> : i, j \in 1..10}] >>

\* Mutant: the rule for 9 digits is tried before the rule for 256.
NormalizePhoneNumber_NineFirst(phone) ==
    IF ~Truthy(phone) \/ Kind(phone) # "str" THEN EmptyStr
    ELSE
      LET Formatted(digits) ==
              CASE Len(digits) = 9 -> PyStr(<<"+", "2", "5", "6">> \o digits)
                [] StartsWith(digits, <<"2", "5", "6">>) -> PyStr(<<"+">> \o digits)
                [] StartsWith(digits, <<"0">>) /\ Len(digits) = 10 ->
                      PyStr(<<"+", "2", "5", "6">> \o Tail(digits))
                [] OTHER -> PyStr(digits)
      IN  Formatted(SelectSeq(phone.str, IsDigit))

\* normalize_phone_number; re.sub(r'\D', '', phone) keeps the digits
NormalizePhoneNumber(phone) ==
    IF ~Truthy(phone) \/ Kind(phone) # "str" THEN EmptyStr
    ELSE
      LET Formatted(digits) ==
              CASE StartsWith(digits, <<"2", "5", "6">>) -> PyStr(<<"+">> \o digits)
                [] StartsWith(digits, <<"0">>) /\ Len(digits) = 10 ->
                      PyStr(<<"+", "2", "5", "6">> \o Tail(digits))
                [] Len(digits) = 9 -> PyStr(<<"+", "2", "5", "6">> \o digits)
                [] OTHER -> PyStr(digits)
      IN  Formatted(SelectSeq(phone.str, IsDigit))

\* identify_network: the first pattern of PHONE_PATTERNS that matches
IdentifyNetwork(phone) ==
    LET Matches(k) ==
            \E prefix \in {<<>>, <<"+", "2", "5", "6">>, <<"2", "5", "6">>, <<"0">>} :
                /\ StartsWith(phone.str, prefix)
                /\ LET rest == SubSeq(phone.str, Len(prefix) + 1, Len(phone.str))
                   IN  /\ Len(rest) = 9
                       /\ AllDigits(rest)
                       /\ SubSeq(rest, 1, 2) \in PHONE_PATTERNS[k].codes
        First(found) ==
            IF found = {} THEN LitUNKNOWN
            ELSE PyStr(PHONE_PATTERNS[CHOOSE k \in found : \A j \in found : k <= j].network)
    IN  IF ~Truthy(phone) THEN LitUNKNOWN
        ELSE First({k \in 1..Len(PHONE_PATTERNS) : Matches(k)})

\* normalize_amount; re.sub(r'[UGX,$\s]', '', amount) removes those characters
NormalizeAmount(amount) ==
    CASE Kind(amount) = "none" -> PyFloat(0)
      [] Kind(amount) \in {"int", "float", "nan", "inf"} -> ToFloat(amount)
      [] Kind(amount) = "str" ->
            LET Kept(c) == ~(c \in {"U", "G", "X", ",", "$"} \/ IsSpace(c))
                OrZero(parsed) == IF Raised(parsed) THEN PyFloat(0) ELSE parsed
            IN  OrZero(ParseFloat(SelectSeq(amount.str, Kept)))
      [] OTHER -> PyFloat(0)

\* normalize_date: an unparsable or missing date becomes the current time
NormalizeDate(date_input, now) ==
    CASE Kind(date_input) = "datetime" -> IsoFormat(date_input.datetime)
      [] Kind(date_input) = "str" ->
            LET OrNow(parsed_date) ==
                    IF Raised(parsed_date) THEN IsoFormat(now)
                    ELSE IsoFormat(parsed_date.datetime)
            IN  OrNow(ParseDate(date_input.str))
      [] OTHER -> IsoFormat(now)

\* re.sub(r'\s+', ' ', s): every run of whitespace becomes one space
RECURSIVE CollapseSpaces(_)
CollapseSpaces(s) ==
    CASE s = <<>> -> <<>>
      [] s # <<>> /\ ~IsSpace(Head(s)) -> <<Head(s)>> \o CollapseSpaces(Tail(s))
      [] OTHER -> <<" ">> \o CollapseSpaces(LStrip(s))

\* clean_text: whitespace is collapsed first, then every character outside
\* [\w\s\-.,()] is removed
CleanText(text) ==
    IF ~Truthy(text) \/ Kind(text) # "str" THEN EmptyStr
    ELSE
      LET Kept(c) ==
              IsLetter(c) \/ IsDigit(c) \/ IsSpace(c) \/ c \in {"_", "-", ".", ",", "(", ")"}
      IN  PyStr(SelectSeq(CollapseSpaces(Strip(text.str)), Kept))

\* The printable ASCII characters, from code 32 (space) to code 126 (the
\* grave accent, code 96, is spelt out)
Ascii ==
    <<" ", "!", "\"", "#", "$", "%", "&", "'", "(", ")", "*", "+", ",", "-", ".", "/",
      "0", "1", "2", "3", "4", "5", "6", "7", "8", "9", ":", ";", "<", "=", ">", "?",
      "@", "A", "B", "C", "D", "E", "F", "G", "H", "I", "J", "K", "L", "M", "N", "O",
      "P", "Q", "R", "S", "T", "U", "V", "W", "X", "Y", "Z", "[", "\\", "]", "^", "_",
      "grave", "a", "b", "c", "d", "e", "f", "g", "h", "i", "j", "k", "l", "m", "n", "o",
      "p", "q", "r", "s", "t", "u", "v", "w", "x", "y", "z", "{", "|", "}", "~">>

\* data_string.encode(): the byte of each character
Encode(s) ==
    [i \in 1..Len(s) |->
        IF \E k \in 1..Len(Ascii) : Ascii[k] = s[i]
        THEN 31 + (CHOOSE k \in 1..Len(Ascii) : Ascii[k] = s[i])
        ELSE 9]

HexChars == <<"0", "1", "2", "3", "4", "5", "6", "7",
              "8", "9", "a", "b", "c", "d", "e", "f">>

\* hashlib.md5(bytes).hexdigest(): 32 hexadecimal digits that are a function
\* of the bytes alone. MD5's compression function is abstracted to a
\* polynomial checksum of the bytes modulo a prime, spread over the digits.
RECURSIVE Checksum(_)
Checksum(bytes) ==
    IF bytes = <<>> THEN 7
    ELSE (Checksum(SubSeq(bytes, 1, Len(bytes) - 1)) * 31 + bytes[Len(bytes)]) % 65521
Md5HexDigest(bytes) ==
    LET Digits(nibble) ==
            [k \in 1..32 |-> HexChars[((nibble[((k - 1) % 4) + 1] + ((k - 1) \div 4)) % 16) + 1]]
        Nibbles(h) == <<h % 16, (h \div 16) % 16, (h \div 256) % 16, (h \div 4096) % 16>>
    IN  Digits(Nibbles(Checksum(bytes)))

\* The attributes generate_transaction_id hashes, in key_data's order
KeyFields == <<"transaction_date", "amount", "sender_phone", "receiver_phone", "description">>

\* Mutant: the raw body is hashed too.
GenerateTransactionId_WithBody(transaction) ==
    LET fields == KeyFields \o <<"raw_body">>
        key_data == [k \in 1..Len(fields) |-> ToStr(Get(transaction, fields[k], EmptyStr))]
    IN  PyStr(SubSeq(Md5HexDigest(Encode(Join(key_data, <<"|">>))), 1, 12))

\* generate_transaction_id: the first 12 digits of the digest of the five
\* attributes' str(), joined by '|'
GenerateTransactionId(transaction) ==
    LET key_data ==
            [k \in 1..Len(KeyFields) |-> ToStr(Get(transaction, KeyFields[k], EmptyStr))]
        data_string == Join(key_data, <<"|">>)
    IN  PyStr(SubSeq(Md5HexDigest(Encode(data_string)), 1, 12))

\* clean_transaction: a copy of the record with its phone numbers, amounts,
\* date and description normalized, and an id derived when the record has
\* none (or a false one). A record that is no dict yields None.
CleanTransaction(transaction, now) ==
    IF transaction = None THEN None
    ELSE
      LET Has(f) == f \in DOMAIN transaction
          amounts == {"amount", "balance_before", "balance_after", "fees"} \cap DOMAIN transaction
          WithId(cleaned) ==
              IF "transaction_id" \notin DOMAIN cleaned \/ ~Truthy(cleaned.transaction_id)
              THEN Put(cleaned, "transaction_id", GenerateTransactionId(cleaned))
              ELSE cleaned
      IN  WithId(
                [f \in DOMAIN transaction \cup
                       (IF Has("sender_phone") THEN {"sender_network"} ELSE {}) \cup
                       (IF Has("receiver_phone") THEN {"receiver_network"} ELSE {}) |->
                  CASE f \in {"sender_phone", "receiver_phone"} ->
                          NormalizePhoneNumber(transaction[f])
                    [] f = "sender_network" /\ Has("sender_phone") ->
                          IdentifyNetwork(NormalizePhoneNumber(transaction.sender_phone))
                    [] f = "receiver_network" /\ Has("receiver_phone") ->
                          IdentifyNetwork(NormalizePhoneNumber(transaction.receiver_phone))
                    [] f \in amounts -> NormalizeAmount(transaction[f])
                    [] f = "transaction_date" -> NormalizeDate(transaction[f], now)
                    [] f = "description" -> CleanText(transaction[f])
                    [] OTHER -> transaction[f]])

\* clean_transactions: the cleaned records, without those that gave None
RECURSIVE CleanTransactions(_, _)
CleanTransactions(transactions, now) ==
    IF transactions = <<>> THEN <<>>
    ELSE LET Kept(cleaned_transaction) ==
                 IF cleaned_transaction = None THEN <<>> ELSE <<cleaned_transaction>>
         IN  Kept(CleanTransaction(Head(transactions), now))
             \o CleanTransactions(Tail(transactions), now)

\* validate_transaction: False when a required field is missing or false,
\* or the amount is <= 0; comparing an amount that is no number with 0 is a
\* TypeError.
ValidateTransaction(transaction) ==
    CASE \E field \in {"transaction_id", "amount", "transaction_date"} :
            field \notin DOMAIN transaction \/ ~Truthy(transaction[field]) -> PyBool(FALSE)
      [] Kind(transaction.amount) = "int" -> PyBool(transaction.amount.int > 0)
      [] Kind(transaction.amount) \in {"float", "nan", "inf"} ->
            PyBool(~FloatLeZero(transaction.amount))
      [] OTHER -> Raise("TypeError")

\* clean_and_normalize_data: the cleaned records that validate
CleanAndNormalizeData(transactions, now) ==
    LET Valid(t) == ValidateTransaction(t) = PyBool(TRUE)
        Filtered(cleaned_transactions) ==
            IF \E i \in 1..Len(cleaned_transactions) :
                    Raised(ValidateTransaction(cleaned_transactions[i]))
            THEN Raise("TypeError")
            ELSE [valid |-> SelectSeq(cleaned_transactions, Valid)]
    IN  Filtered(CleanTransactions(transactions, now))

-----------------------------------------------------------------------------
(* The categorizer (categorize.py).                                        *)

\* TRANSACTION_CATEGORIES, in the dict's order
TRANSACTION_CATEGORIES ==
    << [category |-> <<"T", "R", "A", "N", "S", "F", "E", "R">>,
       keywords |-> <<
              <<"t", "r", "a", "n", "s", "f", "e", "r">>,
              <<"s", "e", "n", "d">>,
              <<"s", "e", "n", "t">> >>],
       [category |-> <<"D", "E", "P", "O", "S", "I", "T">>,
       keywords |-> <<
              <<"d", "e", "p", "o", "s", "i", "t">>,
              <<"r", "e", "c", "e", "i", "v", "e">>,
              <<"r", "e", "c", "e", "i", "v", "e", "d">>,
              <<"t", "o", "p", " ", "u", "p">>,
              <<"t", "o", "p", "u", "p">> >>],
       [category |-> <<"W", "I", "T", "H", "D", "R", "A", "W", "A", "L">>,
       keywords |-> <<
              <<"w", "i", "t", "h", "d", "r", "a", "w">>,
              <<"w", "i", "t", "h", "d", "r", "a", "w", "a", "l">>,
              <<"c", "a", "s", "h", " ", "o", "u", "t">>,
              <<"c", "a", "s", "h", "o", "u", "t">> >>],
       [category |-> <<"P", "A", "Y", "M", "E", "N", "T">>,
       keywords |-> <<
              <<"p", "a", "y", "m", "e", "n", "t">>,
              <<"p", "a", "y">>,
              <<"p", "u", "r", "c", "h", "a", "s", "e">>,
              <<"b", "u", "y">> >>],
       [category |-> <<"A", "I", "R", "T", "I", "M", "E">>,
       keywords |-> <<
              <<"a", "i", "r", "t", "i", "m", "e">>,
              <<"c", "r", "e", "d", "i", "t">>,
              <<"r", "e", "c", "h", "a", "r", "g", "e">> >>],
       [category |-> <<"B", "I", "L", "L">>,
       keywords |-> <<
              <<"b", "i", "l", "l">>,
              <<"u", "t", "i", "l", "i", "t", "y">>,
              <<"e", "l", "e", "c", "t", "r", "i", "c", "i", "t", "y">>,
              <<"w", "a", "t", "e", "r">> >>],
       [category |-> <<"O", "T", "H", "E", "R">>,
       keywords |-> << >>] >>

\* AMOUNT_THRESHOLDS, in hundredths
AMOUNT_THRESHOLDS == [SMALL |-> 1000 * 100, MEDIUM |-> 50000 * 100, LARGE |-> 500000 * 100]

\* The phrases of _categorize_by_body's if/elif chain, in its order
BodyPatterns ==
    << [category |-> <<"T", "R", "A", "N", "S", "F", "E", "R">>,
       phrases |-> <<
              <<"y", "o", "u", " ", "h", "a", "v", "e", " ", "s", "e", "n", "t">>,
              <<"s", "e", "n", "t", " ", "t", "o">> >>],
       [category |-> <<"D", "E", "P", "O", "S", "I", "T">>,
       phrases |-> <<
              <<"y", "o", "u", " ", "h", "a", "v", "e", " ", "r", "e", "c", "e", "i", "v", "e", "d">>,
              <<"r", "e", "c", "e", "i", "v", "e", "d", " ", "f", "r", "o", "m">> >>],
       [category |-> <<"W", "I", "T", "H", "D", "R", "A", "W", "A", "L">>,
       phrases |-> <<
              <<"c", "a", "s", "h", " ", "o", "u", "t">>,
              <<"w", "i", "t", "h", "d", "r", "a", "w", "a", "l">> >>],
       [category |-> <<"A", "I", "R", "T", "I", "M", "E">>,
       phrases |-> <<
              <<"a", "i", "r", "t", "i", "m", "e">>,
              <<"t", "o", "p", " ", "u", "p">> >>],
       [category |-> <<"P", "A", "Y", "M", "E", "N", "T">>,
       phrases |-> <<
              <<"p", "a", "y", "m", "e", "n", "t">>,
              <<"p", "a", "i", "d", " ", "t", "o">> >>],
       [category |-> <<"B", "I", "L", "L">>,
       phrases |-> <<
              <<"b", "i", "l", "l">>,
              <<"u", "t", "i", "l", "i", "t", "y">> >>] >>

\* The first entry of a table one of whose phrases occurs in text, or 0
FirstMatch(tbl, field, text) ==
    LET First(found) == IF found = {} THEN 0 ELSE CHOOSE k \in found : \A j \in found : k <= j
    IN  First({k \in 1..Len(tbl) :
                  \E j \in 1..Len(tbl[k][field]) : Contains(text, Lower(tbl[k][field][j]))})

\* _categorize_by_description: the first category with a keyword in the
\* lowered description, '' when there is none; .lower() of a value that is
\* no str is an AttributeError. OTHER has no keywords and is skipped.
CategorizeByDescription(description) ==
    CASE ~Truthy(description) -> EmptyStr
      [] Kind(description) # "str" -> Raise("AttributeError")
      [] OTHER ->
            LET Category(k) ==
                    IF k = 0 THEN EmptyStr ELSE PyStr(TRANSACTION_CATEGORIES[k].category)
            IN  Category(FirstMatch(TRANSACTION_CATEGORIES, "keywords",
                                    Lower(description.str)))

\* Mutant: the body is matched as it is written, not lowered.
CategorizeByBody_CaseSensitive(body) ==
    CASE ~Truthy(body) -> EmptyStr
      [] Kind(body) # "str" -> Raise("AttributeError")
      [] OTHER ->
            LET Category(k) == IF k = 0 THEN EmptyStr ELSE PyStr(BodyPatterns[k].category)
            IN  Category(FirstMatch(BodyPatterns, "phrases", body.str))

\* _categorize_by_body
CategorizeByBody(body) ==
    CASE ~Truthy(body) -> EmptyStr
      [] Kind(body) # "str" -> Raise("AttributeError")
      [] OTHER ->
            LET Category(k) == IF k = 0 THEN EmptyStr ELSE PyStr(BodyPatterns[k].category)
            IN  Category(FirstMatch(BodyPatterns, "phrases", Lower(body.str)))

\* Whether a < b is defined: for two numbers (int, float, inf or nan) and
\* for two strings; for any other pair it is a TypeError.
IsNumber(v) == Kind(v) \in {"int", "float", "nan", "inf"}
Comparable(a, b) ==
    (IsNumber(a) /\ IsNumber(b)) \/ (Kind(a) = "str" /\ Kind(b) = "str")

\* x < y for two byte strings, lexicographically
RECURSIVE BytesLess(_, _)
BytesLess(x, y) ==
    CASE y = <<>> -> FALSE
      [] x = <<>> -> TRUE
      [] Head(x) # Head(y) -> Head(x) < Head(y)
      [] OTHER -> BytesLess(Tail(x), Tail(y))

\* a < b for a comparable pair. Every comparison with nan is false.
Less(a, b) ==
    LET Val(v) == IF Kind(v) = "int" THEN v.int * 100 ELSE v.float
    IN  CASE Kind(a) = "str" -> BytesLess(Encode(a.str), Encode(b.str))
          [] Kind(a) = "nan" \/ Kind(b) = "nan" -> FALSE
          [] Kind(a) = "inf" /\ Kind(b) = "inf" -> a.inf < b.inf
          [] Kind(a) = "inf" -> a.inf < 0
          [] Kind(b) = "inf" -> b.inf > 0
          [] OTHER -> Val(a) < Val(b)

\* _infer_transaction_type
InferTransactionType(transaction, category) ==
    LET debit == {PyStr(<<"T", "R", "A", "N", "S", "F", "E", "R">>), PyStr(<<"W", "I", "T", "H", "D", "R", "A", "W", "A", "L">>), 
                  PyStr(<<"P", "A", "Y", "M", "E", "N", "T">>), PyStr(<<"A", "I", "R", "T", "I", "M", "E">>), 
                  PyStr(<<"B", "I", "L", "L">>)}
        balance_before == Get(transaction, "balance_before", PyInt(0))
        balance_after == Get(transaction, "balance_after", PyInt(0))
        both == Truthy(balance_before) /\ Truthy(balance_after)
        raw_body == Get(transaction, "raw_body", EmptyStr)
        body == Lower(raw_body.str)
        AnyIn(phrases) == \E phrase \in phrases : Contains(body, phrase)
    IN  CASE category \in debit -> PyStr(<<"D", "E", "B", "I", "T">>)
          [] category = PyStr(<<"D", "E", "P", "O", "S", "I", "T">>) -> PyStr(<<"C", "R", "E", "D", "I", "T">>)
          [] both /\ ~Comparable(balance_after, balance_before) -> Raise("TypeError")
          [] both /\ Less(balance_before, balance_after) -> PyStr(<<"C", "R", "E", "D", "I", "T">>)
          [] both /\ Less(balance_after, balance_before) -> PyStr(<<"D", "E", "B", "I", "T">>)
          [] Kind(raw_body) # "str" -> Raise("AttributeError")
          [] AnyIn({<<"s", "e", "n", "t">>, <<"p", "a", "i", "d">>, <<"w", "i", "t", "h", "d", "r", "a", "w">>,
                  <<"c", "a", "s", "h", " ", "o", "u", "t">>}) -> PyStr(<<"D", "E", "B", "I", "T">>)
          [] AnyIn({<<"r", "e", "c", "e", "i", "v", "e", "d">>, <<"d", "e", "p", "o", "s", "i", "t">>,
                  <<"c", "r", "e", "d", "i", "t", "e", "d">>}) -> PyStr(<<"C", "R", "E", "D", "I", "T">>)
          [] OTHER -> LitUNKNOWN

\* Mutant: the thresholds belong to the upper bucket.
CategorizeByAmount_Exclusive(amount) ==
    LET Lt(t) == Kind(amount) # "nan" /\ Less(amount, PyFloat(t))
    IN  CASE ~IsNumber(amount) -> Raise("TypeError")
          [] Lt(AMOUNT_THRESHOLDS.SMALL) -> PyStr(<<"S", "M", "A", "L", "L">>)
          [] Lt(AMOUNT_THRESHOLDS.MEDIUM) -> PyStr(<<"M", "E", "D", "I", "U", "M">>)
          [] Lt(AMOUNT_THRESHOLDS.LARGE) -> PyStr(<<"L", "A", "R", "G", "E">>)
          [] OTHER -> PyStr(<<"V", "E", "R", "Y", "_", "L", "A", "R", "G", "E">>)

\* _categorize_by_amount: amount <= t is false for nan and else the
\* negation of t < amount
CategorizeByAmount(amount) ==
    LET Le(t) == Kind(amount) # "nan" /\ ~Less(PyFloat(t), amount)
    IN  CASE ~IsNumber(amount) -> Raise("TypeError")
          [] Le(AMOUNT_THRESHOLDS.SMALL) -> PyStr(<<"S", "M", "A", "L", "L">>)
          [] Le(AMOUNT_THRESHOLDS.MEDIUM) -> PyStr(<<"M", "E", "D", "I", "U", "M">>)
          [] Le(AMOUNT_THRESHOLDS.LARGE) -> PyStr(<<"L", "A", "R", "G", "E">>)
          [] OTHER -> PyStr(<<"V", "E", "R", "Y", "_", "L", "A", "R", "G", "E">>)

\* Mutant: the morning starts after hour 5.
CategorizeByTime_LateMorning(transaction_date) ==
    LET dt == IF Kind(transaction_date) = "str" /\ transaction_date.str # <<>>
                 /\ transaction_date.str[1] = "T"
              THEN ParseDate(transaction_date.str) ELSE Raise("ValueError")
        hour == (dt.datetime \div 3600000) % 24
    IN  CASE ~Truthy(transaction_date) \/ Raised(dt) -> LitUNKNOWN
          [] 5 < hour /\ hour < 12 -> PyStr(<<"M", "O", "R", "N", "I", "N", "G">>)
          [] 12 <= hour /\ hour < 17 -> PyStr(<<"A", "F", "T", "E", "R", "N", "O", "O", "N">>)
          [] 17 <= hour /\ hour < 21 -> PyStr(<<"E", "V", "E", "N", "I", "N", "G">>)
          [] OTHER -> PyStr(<<"N", "I", "G", "H", "T">>)

\* _categorize_by_time: the part of the day of the hour of an ISO date;
\* UNKNOWN for a false value and for whatever fromisoformat() does not accept
\* (only the ISO rendering T... is accepted). The hour of an instant follows
\* from its millisecond count.
CategorizeByTime(transaction_date) ==
    LET dt == IF Kind(transaction_date) = "str" /\ transaction_date.str # <<>>
                 /\ transaction_date.str[1] = "T"
              THEN ParseDate(transaction_date.str) ELSE Raise("ValueError")
        hour == (dt.datetime \div 3600000) % 24
    IN  CASE ~Truthy(transaction_date) \/ Raised(dt) -> LitUNKNOWN
          [] 5 <= hour /\ hour < 12 -> PyStr(<<"M", "O", "R", "N", "I", "N", "G">>)
          [] 12 <= hour /\ hour < 17 -> PyStr(<<"A", "F", "T", "E", "R", "N", "O", "O", "N">>)
          [] 17 <= hour /\ hour < 21 -> PyStr(<<"E", "V", "E", "N", "I", "N", "G">>)
          [] OTHER -> PyStr(<<"N", "I", "G", "H", "T">>)

\* categorize_transaction: a copy of the record with category,
\* transaction_type, amount_category and time_category set, or the exception
\* one of the rules raised
CategorizeTransaction(transaction) ==
    LET Annotated(category, transaction_type, amount_category, time_category) ==
            CASE Raised(transaction_type) -> transaction_type
              [] Raised(amount_category) -> amount_category
              [] OTHER ->
                    [f \in DOMAIN transaction \cup
                           {"category", "transaction_type", "amount_category",
                            "time_category"} |->
                        CASE f = "category" -> category
                          [] f = "transaction_type" -> transaction_type
                          [] f = "amount_category" -> amount_category
                          [] f = "time_category" -> time_category
                          [] OTHER -> transaction[f]]
        WithCategory(category) ==
            IF Raised(category) THEN category
            ELSE Annotated(category,
                           InferTransactionType(transaction, category),
                           CategorizeByAmount(Get(transaction, "amount", PyInt(0))),
                           CategorizeByTime(Get(transaction, "transaction_date", EmptyStr)))
        OrOther(by_body) ==
            WithCategory(IF Raised(by_body) \/ Truthy(by_body) THEN by_body ELSE LitOTHER)
        OrByBody(by_description) ==
            IF Raised(by_description) \/ Truthy(by_description)
            THEN WithCategory(by_description)
            ELSE OrOther(CategorizeByBody(Get(transaction, "raw_body", EmptyStr)))
    IN  OrByBody(CategorizeByDescription(Get(transaction, "description", EmptyStr)))

\* categorize_transactions: the categorized records in order; an exception
\* of one record leaves the loop
RECURSIVE CategorizeTransactions(_)
CategorizeTransactions(transactions) ==
    IF transactions = <<>> THEN [categorized |-> <<>>]
    ELSE LET Joined(categorized, others) ==
                 CASE Raised(categorized) -> categorized
                   [] Raised(others) -> others
                   [] OTHER -> [categorized |-> <<categorized>> \o others.categorized]
         IN  Joined(CategorizeTransaction(Head(transactions)),
                    CategorizeTransactions(Tail(transactions)))

-----------------------------------------------------------------------------
(* The store under any sequence of insert_transactions calls.              *)

IdA == PyStr(<<"a">>)
IdB == PyStr(<<"b">>)

\* Records handed to insert_transactions: two full records of one id with
\* different values in every column (the second with a zero balance and zero
\* fees), a minimal record of another id, and a record no upsert can store
\* (its amount is nan, which SQLite binds as NULL).
TxSamples ==
    { [transaction_id |-> IdA, amount |-> PyFloat(1000), currency |-> LitUGX,
       transaction_date |-> IsoFormat(1), transaction_type |-> PyStr(<<"D">>),
       category |-> PyStr(<<"T">>), sender_phone |-> PyStr(<<"1">>),
       receiver_phone |-> PyStr(<<"2">>), sender_network |-> PyStr(<<"M">>),
       receiver_network |-> PyStr(<<"A">>), description |-> PyStr(<<"x">>),
       balance_before |-> PyFloat(10000), balance_after |-> PyFloat(9000),
       fees |-> PyFloat(100), status |-> LitSUCCESS],
      [transaction_id |-> IdA, amount |-> PyFloat(2000), currency |-> PyStr(<<"$">>),
       transaction_date |-> IsoFormat(2), transaction_type |-> PyStr(<<"C">>),
       category |-> PyStr(<<"P">>), sender_phone |-> PyStr(<<"3">>),
       receiver_phone |-> PyStr(<<"4">>), sender_network |-> PyStr(<<"A">>),
       receiver_network |-> PyStr(<<"M">>), description |-> PyStr(<<"y">>),
       balance_before |-> PyFloat(0), balance_after |-> PyFloat(2000),
       fees |-> PyFloat(0), status |-> PyStr(<<"F">>)],
      [transaction_id |-> IdB, amount |-> PyInt(5), transaction_date |-> IsoFormat(1)],
      [transaction_id |-> IdA, amount |-> PyNaN, transaction_date |-> IsoFormat(3)] }

Batches == UNION {[1..n -> TxSamples] : n \in 0..MaxBatch}

NoInsert == [now |-> 0, n |-> 0, rows_at_start |-> 0, count |-> 0, last |-> None]
NoDeadLetter == [name \in {} |-> None]
Idle == [pc |-> "idle"]
NoPasses == [pc |-> "idle", batch |-> <<>>, data |-> <<>>, log |-> <<>>]
\* The pipeline processes that write to the database at the same time
Procs == {"p", "q"}
\* No process has opened the database.
NoWriters ==
    [w \in Procs |->
        [pc |-> "idle", t |-> None, existing |-> 0, ok |-> FALSE, locked |-> FALSE,
         rows |-> <<>>, last |-> FALSE]]
\* No function has been called.
NoCall == [op |-> "", arg |-> None, done |-> FALSE, result |-> None]
NoPipeline ==
    [pc |-> "idle", doc |-> None, store_at_start |-> <<>>, steps |-> <<>>,
     counts |-> <<>>, data |-> <<>>, exported |-> None]

Init ==
    /\ clock = 0
    /\ store = <<>>
    /\ last_insert = NoInsert
    /\ dead_letter = NoDeadLetter
    /\ parse_run = Idle
    /\ pipeline = NoPipeline
    /\ passes = NoPasses
    /\ id_calls = <<>>
    /\ call = NoCall
    /\ writers = NoWriters

\* Time passes.
Tick ==
    /\ clock < MaxClock
    /\ clock' = clock + 1
    /\ UNCHANGED <<store, last_insert, dead_letter, parse_run, pipeline, passes, id_calls, call, writers>>

\* DatabaseManager.insert_transactions(batch): an empty batch returns 0
\* before the database is opened.
CallInsertTransactions(batch) ==
    LET Done(r) ==
            /\ store' = r.rows
            /\ last_insert' = [now |-> clock, n |-> Len(batch), rows_at_start |-> Len(store),
                                count |-> r.count, last |-> r.last]
    IN  /\ Done(InsertTransactions(store, batch, clock))
        /\ UNCHANGED <<clock, dead_letter, parse_run, pipeline, passes, id_calls, call, writers>>

Next ==
    \/ Tick
    \/ \E batch \in Batches : CallInsertTransactions(batch)

Spec == Init /\ [][Next]_vars

-----------------------------------------------------------------------------
(* Properties of the store.                                                *)

\* A record an upsert can store: every float() conversion succeeds and the
\* amount is a number.
Storable(t) ==
    LET data == TransactionData(t, 0)
    IN  (\A k \in DOMAIN data : ~Raised(data[k])) /\ Kind(data.amount) # "nan"

\* C1: after any sequence of insert_transactions calls no two rows share a
\* transaction_id; an upsert of an id that is already present never adds a
\* row, and (for a storable record) updates the existing row.
C1_UniqueTransactionId ==
    /\ \A i, j \in 1..Len(store) :
          i # j => store[i].transaction_id # store[j].transaction_id
    /\ LET e == last_insert.last
       IN  e # None /\ e.present =>
             /\ e.rows_after = e.rows_before
             /\ Storable(e.t) =>
                   e.ok /\ e.row.amount = TransactionData(e.t, 0).amount

\* C1 witness: one batch carried the same id twice; the first upsert
\* inserted the row and the second updated it.
C1_Witness ==
    /\ last_insert.n = 2 /\ last_insert.rows_at_start = 0 /\ last_insert.count = 2
    /\ last_insert.last.present /\ last_insert.last.ok
    /\ Len(store) = 1

MutableColumns ==
    {"amount", "currency", "transaction_date", "transaction_type", "category",
     "sender_phone", "receiver_phone", "sender_network", "receiver_network",
     "description", "balance_before", "balance_after", "fees", "status"}

\* C2: after a successful upsert of an id that was already present there is
\* exactly one row of that id, and every mutable column of it holds the value
\* the upserted record carries.
C2_LatestValues ==
    LET e == last_insert.last
        carried == TransactionData(e.t, last_insert.now)
    IN  e # None /\ e.present /\ e.ok =>
          /\ Cardinality({i \in 1..Len(store) :
                 store[i].transaction_id = e.t.transaction_id}) = 1
          /\ \A c \in MutableColumns : e.row[c] = Stored(c, carried[c])

\* One insert_transactions call of any batch, on the empty table and on the
\* tables one record leaves.
StartTables == {InsertTransactions(<<>>, batch, 0).rows : batch \in {b \in Batches : Len(b) <= 1}}

InitBatch ==
    /\ clock = 0
    /\ store \in StartTables
    /\ last_insert = NoInsert
    /\ dead_letter = NoDeadLetter
    /\ parse_run = Idle
    /\ pipeline = NoPipeline
    /\ passes = NoPasses
    /\ id_calls = <<>>
    /\ call = NoCall
    /\ writers = NoWriters

NextBatch ==
    \/ Tick
    \/ \E batch \in Batches : last_insert = NoInsert /\ CallInsertTransactions(batch)

SpecBatch == InitBatch /\ [][NextBatch]_vars

\* C22: a failed upsert neither aborts nor rolls back the batch. In every
\* insert_transactions call the count returned is the number of records whose
\* upsert succeeds (the storable ones), the last storable record of each id is
\* in the table afterwards, wherever the failed records stand in the batch,
\* and the rows of other ids are as they were.
C22_FailedUpsertDoesNotAbort ==
    [][\A batch \in {b \in Batches : Len(b) = last_insert'.n} :
          (batch # <<>> => batch[Len(batch)] = last_insert'.last.t)
              /\ CallInsertTransactions(batch) =>
              LET good == {k \in 1..Len(batch) : Storable(batch[k])}
                  Final(k) ==
                      /\ k \in good
                      /\ \A j \in good :
                            j > k => batch[j].transaction_id # batch[k].transaction_id
              IN  /\ last_insert'.count = Cardinality(good)
                  /\ \A k \in 1..Len(batch) :
                        Final(k) =>
                            \E i \in 1..Len(store') :
                                /\ store'[i].transaction_id = batch[k].transaction_id
                                /\ store'[i].amount = TransactionData(batch[k], 0).amount
                  /\ \A i \in 1..Len(store) :
                        (\A k \in good : batch[k].transaction_id # store[i].transaction_id)
                            => store'[i] = store[i]]_vars

\* C22 witness: on the empty table the first record of a batch of two failed
\* and the second was stored: the call returned 1 and the table holds the row.
C22_Witness ==
    /\ last_insert.n = 2 /\ last_insert.rows_at_start = 0 /\ last_insert.count = 1
    /\ last_insert.last.ok /\ ~last_insert.last.present
    /\ Len(store) = 1 /\ store[1].transaction_id = IdB

\* C28: created_at is set once. No insert_transactions call changes the
\* created_at of a row whose transaction_id was in the table before the call.
C28_CreatedAtSetOnce ==
    [][\A i \in 1..Len(store) : \A j \in 1..Len(store') :
          store'[j].transaction_id = store[i].transaction_id =>
              store'[j].created_at = store[i].created_at]_vars

-----------------------------------------------------------------------------
(* Two processes that run insert_transactions on one record each, step by   *)
(* step. store is the committed table; a process that has run its INSERT or *)
(* UPDATE holds the write lock and its own table until it commits.          *)

\* cursor.execute("SELECT id FROM transactions WHERE transaction_id = ?"):
\* the committed table is read, whoever holds the write lock.
WriterSelect(w, t) ==
    /\ writers[w].pc = "idle"
    /\ writers' = [writers EXCEPT ![w] =
            [@ EXCEPT !.pc = "selected", !.t = t,
                      !.existing = SelectId(store, t.transaction_id)]]
    /\ UNCHANGED <<clock, store, last_insert, dead_letter, parse_run, pipeline, passes, id_calls, call>>

\* The INSERT or UPDATE of _upsert_transaction, with the row id the SELECT
\* gave. While another process holds the write lock the statement waits; when
\* the wait passes the timeout of sqlite3.connect (busy_timeout) it raises
\* "database is locked", which _upsert_transaction turns into False.
WriterWrite(w, busy_timeout) ==
    LET Locked == \E v \in Procs \ {w} : writers[v].locked
        Wrote(r) ==
            writers' = [writers EXCEPT ![w] =
                [@ EXCEPT !.pc = "written", !.ok = r.ok, !.locked = r.began,
                          !.rows = r.rows]]
    IN  /\ writers[w].pc = "selected"
        /\ busy_timeout = Locked
        /\ IF Locked
           THEN writers' = [writers EXCEPT ![w] = [@ EXCEPT !.pc = "written", !.ok = FALSE]]
           ELSE Wrote(WriteTransaction(store, writers[w].t, writers[w].existing, clock))
        /\ UNCHANGED <<clock, store, last_insert, dead_letter, parse_run, pipeline, passes, id_calls, call>>

\* conn.commit(): the table of the process becomes the committed table and
\* the lock is released. last marks the process that committed last.
WriterCommit(w) ==
    /\ writers[w].pc = "written"
    /\ store' = IF writers[w].locked THEN writers[w].rows ELSE store
    /\ writers' = [v \in Procs |->
            IF v = w THEN [writers[w] EXCEPT !.pc = "done", !.locked = FALSE, !.last = TRUE]
            ELSE [writers[v] EXCEPT !.last = FALSE]]
    /\ UNCHANGED <<clock, last_insert, dead_letter, parse_run, pipeline, passes, id_calls, call>>

NextWriters ==
    \/ Tick
    \/ \E w \in Procs, t \in TxSamples : WriterSelect(w, t)
    \/ \E w \in Procs, busy_timeout \in BOOLEAN : WriterWrite(w, busy_timeout)
    \/ \E w \in Procs : WriterCommit(w)

SpecWriters == InitBatch /\ [][NextWriters]_vars

\* C23: when two processes have upserted the same transaction_id, in any
\* interleaving of their SELECT, INSERT/UPDATE and commit, neither upsert has
\* failed, one row of that id exists, and it holds the amount of the process
\* that committed last.
C23_LastWriterWins ==
    \A w, v \in Procs :
        LET Row(id) == store[CHOOSE i \in 1..Len(store) : store[i].transaction_id = id]
        IN  /\ w # v
            /\ writers[w].pc = "done" /\ writers[v].pc = "done"
            /\ writers[w].t.transaction_id = writers[v].t.transaction_id
            /\ Storable(writers[w].t) /\ Storable(writers[v].t)
            /\ writers[w].last
            => /\ writers[w].ok /\ writers[v].ok
               /\ Cardinality({i \in 1..Len(store) :
                      store[i].transaction_id = writers[w].t.transaction_id}) = 1
               /\ Row(writers[w].t.transaction_id).amount
                      = TransactionData(writers[w].t, 0).amount

-----------------------------------------------------------------------------
(* get_analytics_data between any insert_transactions calls.               *)

\* DatabaseManager.get_analytics_data(), on a database that answers or one
\* that raises
CallGetAnalyticsData(db_error) ==
    /\ call' = [op |-> "get_analytics_data", arg |-> PyBool(db_error), done |-> TRUE,
                result |-> GetAnalyticsData(store, db_error)]
    /\ UNCHANGED <<clock, store, last_insert, dead_letter, parse_run, pipeline, passes, id_calls, writers>>

\* The records are loaded one insert_transactions call each.
NextAnalytics ==
    \/ Tick
    \/ \E t \in TxSamples : CallInsertTransactions(<<t>>)
    \/ \E db_error \in BOOLEAN : CallGetAnalyticsData(db_error)

SpecAnalytics == Init /\ [][NextAnalytics]_vars

\* The number an int or a float stands for, in hundredths
Hundredths(v) == IF Kind(v) = "int" THEN v.int * 100 ELSE v.float

\* The amounts of the rows added up, in hundredths
RECURSIVE AmountOfRows(_)
AmountOfRows(rows) ==
    IF rows = <<>> THEN 0
    ELSE AmountOfRows(SubSeq(rows, 1, Len(rows) - 1)) + rows[Len(rows)].amount.float

\* C20: whatever insert_transactions calls came before, a get_analytics_data
\* call that the database answers reports as total_transactions the number
\* of rows the table holds at the call, which is the number of ids in it,
\* and as total_amount the sum of amount over those rows.
C20_LiveTotals ==
    [][(call' # call /\ call'.op = "get_analytics_data" /\ call'.arg = PyBool(FALSE)) =>
          /\ call'.result.total_transactions = PyInt(Len(store'))
          /\ Len(store') = Cardinality({store'[i].transaction_id : i \in 1..Len(store')})
          /\ Hundredths(call'.result.total_amount) = AmountOfRows(store')]_vars

\* get_analytics_data was called after an insert_transactions call that
\* updated the one row of the table, of id a, to another amount: it reported
\* one transaction and the new amount.
C20_Witness ==
    /\ call.op = "get_analytics_data" /\ call.arg = PyBool(FALSE)
    /\ last_insert.rows_at_start = 1 /\ last_insert.count = 1
    /\ last_insert.last.present /\ last_insert.last.ok
    /\ Len(store) = 1
    /\ store[1].amount = PyFloat(2000)
    /\ call.result.total_transactions = PyInt(1)
    /\ call.result.total_amount = PyFloat(2000)

-----------------------------------------------------------------------------
(* get_analytics_data on any content of the table.                         *)

\* The most rows a table tried holds
MaxRows == 13

\* The k-th record of a table whose records are gap months apart, the first
\* in month first + gap: its own id, amount and month, one of three
\* categories, of two types, and a sender network that is MTN, '' or null.
TableRecord(k, first, gap) ==
    [transaction_id |-> PyStr(NatStr(k)), amount |-> PyFloat(100 * k),
     transaction_date |-> IsoFormat(((first + (k * gap)) * MsPerMonth) + 5),
     category |-> PyStr(TRANSACTION_CATEGORIES[(k % 3) + 1].category),
     transaction_type |-> IF k % 2 = 0 THEN PyStr(<<"D", "E", "B", "I", "T">>) ELSE PyStr(<<"C", "R", "E", "D", "I", "T">>),
     sender_network |-> CASE k % 3 = 0 -> PyStr(<<"M", "T", "N">>)
                          [] k % 3 = 1 -> EmptyStr
                          [] OTHER -> None]

\* A record whose date SQLite's strftime does not read
UndatedRecord ==
    [transaction_id |-> IdA, amount |-> PyFloat(700), transaction_date |-> PyStr(<<"x">>)]

\* The table insert_transactions leaves when it loads records of different
\* ids into the empty table: row k is the row the upsert of the k-th record
\* inserts, under rowid k.
LoadedTable(records, now) ==
    [k \in 1..Len(records) |->
        [UpsertTransaction(<<>>, records[k], now).rows[1] EXCEPT !.id = PyInt(k)]]

\* The tables tried: up to MaxRows rows loaded by one insert_transactions
\* call, in consecutive months or 7 months apart (no month beyond month 21,
\* the last the integers hold), with or without an undated row.
TableSamples ==
    LET shapes == {sh \in (0..MaxRows) \X (0..2) \X {1, 7} : sh[2] + (sh[1] * sh[3]) <= 21}
    IN  { LoadedTable(undated \o [k \in 1..sh[1] |-> TableRecord(k, sh[2], sh[3])], 0) :
            sh \in shapes, undated \in {<<>>, <<UndatedRecord>>} }

InitAggregate ==
    /\ clock = 0
    /\ store \in TableSamples
    /\ last_insert = NoInsert
    /\ dead_letter = NoDeadLetter
    /\ parse_run = Idle
    /\ pipeline = NoPipeline
    /\ passes = NoPasses
    /\ id_calls = <<>>
    /\ call = NoCall
    /\ writers = NoWriters

\* ORDER BY transaction_date DESC compares the stored texts. ISO renderings
\* of instants compare as the instants do; a text that is no rendering of an
\* instant starts with a letter and sorts above them all. The key of a date:
\* its instant, or the largest integer.
DateKey(date) ==
    IF StrftimeMonth(date) # None THEN ParseDate(date.str).datetime ELSE 2147483647

\* Rows in the order of their keys, largest first, rows of equal key in the
\* order they have
ByKeyDesc(found, keys) ==
    LET Rank(i) ==
            1 + Cardinality({j \in 1..Len(found) :
                    keys[j] > keys[i] \/ (keys[j] = keys[i] /\ j < i)})
        place == [i \in 1..Len(found) |-> Rank(i)]
    IN  [p \in 1..Len(found) |-> found[CHOOSE i \in 1..Len(found) : place[i] = p]]

\* get_transactions(limit, filters): SELECT * FROM transactions WHERE every
\* field of filters equals its value (NULL equals nothing) ORDER BY
\* transaction_date DESC, rows of equal date in rowid order, with LIMIT when
\* limit is true (a negative LIMIT is no limit); [] when sqlite3 raises.
\* filters is None or a dict that is not empty.
GetTransactions(rows, limit, filters, db_error) ==
    LET Matches(row) ==
            filters = None \/
            \A field \in DOMAIN filters : row[field] # None /\ row[field] = filters[field]
        Cut(found) ==
            IF Truthy(limit) /\ limit.int >= 0 /\ limit.int < Len(found)
            THEN SubSeq(found, 1, limit.int) ELSE found
        Ordered(found) ==
            ByKeyDesc(found, [i \in 1..Len(found) |-> DateKey(found[i].transaction_date)])
    IN  IF db_error THEN <<>> ELSE Cut(Ordered(SelectSeq(rows, Matches)))

\* The result caps tried
MaxLimit == 2
Limits == {None} \cup {PyInt(n) : n \in 0..MaxLimit}

\* The filters tried: none, one column, two columns
FilterSamples ==
    { None,
      [category |-> PyStr(TRANSACTION_CATEGORIES[2].category)],
      [category |-> PyStr(TRANSACTION_CATEGORIES[1].category),
       transaction_type |-> PyStr(<<"D", "E", "B", "I", "T">>)] }

\* DatabaseManager.get_transactions(limit, filters), on a database that
\* answers or one that raises
CallGetTransactions(limit, filters, db_error) ==
    /\ call' = [op |-> "get_transactions",
                arg |-> [limit |-> limit, filters |-> filters, db_error |-> db_error],
                done |-> TRUE,
                result |-> GetTransactions(store, limit, filters, db_error)]
    /\ UNCHANGED <<clock, store, last_insert, dead_letter, parse_run, pipeline, passes, id_calls, writers>>

\* One query on each table: a query leaves the table as it is, so a second
\* query would return what it returns as the first.
NextAggregate ==
    \/ \E db_error \in BOOLEAN : call = NoCall /\ CallGetAnalyticsData(db_error)
    \/ \E limit \in Limits, filters \in FilterSamples, db_error \in BOOLEAN :
          call = NoCall /\ CallGetTransactions(limit, filters, db_error)

SpecAggregate == InitAggregate /\ [][NextAggregate]_vars

\* The months of the rows of a table that have one
MonthsOf(rows) ==
    {StrftimeMonth(rows[i].transaction_date).int :
        i \in {j \in 1..Len(rows) : StrftimeMonth(rows[j].transaction_date) # None}}

\* C21: monthly_trends has one entry, with count and summed amount, per
\* calendar month of the 12 most recent calendar months, by month descending:
\* at most 12 entries, and none for a month older than the 12 calendar months
\* that end with the latest month of the table. (The entry of the rows whose
\* date gives no month is let pass, last in the list.)
C21_MonthlyTrendsLast12Months ==
    (call.op = "get_analytics_data" /\ call.done /\ call.arg = PyBool(FALSE)) =>
        LET InMonth(m) == SelectSeq(store, LAMBDA row : StrftimeMonth(row.transaction_date) = m)
            Holds(trends, months) ==
                /\ Len(trends) <= 12
                /\ \A i \in 1..Len(trends) :
                      /\ trends[i].count = Len(InMonth(trends[i].month))
                      /\ trends[i].amount = SqlSum(InMonth(trends[i].month), "amount")
                      /\ Kind(trends[i].month) = "int" =>
                            /\ \A m \in months : trends[i].month.int > m - 12
                            /\ \A j \in 1..(i - 1) :
                                  /\ Kind(trends[j].month) = "int"
                                  /\ trends[j].month.int > trends[i].month.int
        IN  Holds(call.result.monthly_trends, MonthsOf(store))

-----------------------------------------------------------------------------
(* The extractor on any document.                                          *)

\* sms elements: one with an epoch-millisecond date, one whose date is no
\* number, and one without a date attribute.
SmsSamples ==
    { [address |-> PyStr(<<"+", "2", "5", "6">>), date |-> PyStr(<<"5">>),
       body |-> PyStr(<<"s", "e", "n", "t">>)],
      [address |-> PyStr(<<"b">>), date |-> PyStr(<<"x">>), body |-> PyStr(<<"y">>)],
      [address |-> PyStr(<<"c">>), body |-> PyStr(<<"z">>)] }

Documents ==
    {[kind |-> "malformed"], [kind |-> "missing"]}
    \cup {[kind |-> "xml", sms |-> e] :
             e \in UNION {[1..n -> SmsSamples] : n \in 0..MaxDoc}}

\* XMLParser.parse_xml_file(doc)
CallParseXmlFile(doc) ==
    LET Done(r) ==
            /\ parse_run' =
                  IF Raised(r) THEN [pc |-> "raised", doc |-> doc, error |-> r.raise]
                  ELSE [pc |-> "returned", doc |-> doc, now |-> clock,
                        transactions |-> r.transactions, outcomes |-> r.outcomes]
            /\ dead_letter' = IF Raised(r) THEN dead_letter ELSE r.files
    IN  /\ Done(ParseXmlFile(doc, dead_letter, clock))
        /\ UNCHANGED <<clock, store, last_insert, pipeline, passes, id_calls, call, writers>>

\* XMLParser._save_to_dead_letter(element, error_msg), called directly
CallSaveToDeadLetter(element) ==
    /\ dead_letter' = SaveToDeadLetter(dead_letter, element, <<"e", "r", "r">>, clock)
    /\ UNCHANGED <<clock, store, last_insert, parse_run, pipeline, passes, id_calls, call, writers>>

NextExtract ==
    \/ Tick
    \/ \E doc \in Documents : CallParseXmlFile(doc)
    \/ \E element \in SmsSamples : CallSaveToDeadLetter(element)

SpecExtract == Init /\ [][NextExtract]_vars

\* An entry whose date attribute is absent (or empty), or is an integer.
HasNoDate(sms_element) == ~Truthy(Get(sms_element, "date", EmptyStr))
HasEpochDate(sms_element) ==
    ~HasNoDate(sms_element) /\ ~Raised(ParseInt(sms_element.date.str))

\* C5: for every entry whose date attribute is absent or is no parsable
\* epoch value, _extract_transaction_data returns a record (not None) whose
\* transaction_date is the current time.
C5_DefaultDateEmitted ==
    parse_run.pc = "returned" =>
        \A k \in 1..Len(parse_run.doc.sms) :
            ~HasEpochDate(parse_run.doc.sms[k]) =>
                /\ parse_run.outcomes[k] # None
                /\ parse_run.outcomes[k].transaction_date = IsoFormat(parse_run.now)

\* C6: after parse_xml_file returns, each entry of the document is either
\* represented in the returned sequence or present in the dead-letter sink.
C6_FailedEntriesDeadLettered ==
    parse_run.pc = "returned" =>
        \A k \in 1..Len(parse_run.doc.sms) :
            LET sms_element == parse_run.doc.sms[k]
            IN  \/ \E i \in 1..Len(parse_run.transactions) :
                      /\ parse_run.transactions[i].raw_sender = sms_element.address
                      /\ parse_run.transactions[i].raw_body = sms_element.body
                \/ \E name \in DOMAIN dead_letter :
                      dead_letter[name].element = sms_element

\* The records of the well-formed entries (no date, or an epoch date) among
\* elements, in order.
RECURSIVE WellFormedRecords(_, _)
WellFormedRecords(elements, now) ==
    IF elements = <<>> THEN <<>>
    ELSE (IF HasNoDate(Head(elements)) \/ HasEpochDate(Head(elements))
          THEN <<ExtractTransactionBody(Head(elements), now)>> ELSE <<>>)
         \o WellFormedRecords(Tail(elements), now)

\* C7: for a parsable document parse_xml_file returns normally, and its
\* result holds, in document order, one record for every well-formed entry,
\* whatever the number and positions of the malformed entries.
C7_MalformedEntryNeverAborts ==
    /\ parse_run.pc = "raised" => parse_run.doc.kind # "xml"
    /\ parse_run.pc = "returned" =>
          parse_run.transactions = WellFormedRecords(parse_run.doc.sms, parse_run.now)

\* C7 witness: a malformed entry between two well-formed ones; both
\* well-formed entries are in the result.
C7_Witness ==
    /\ parse_run.pc = "returned"
    /\ Len(parse_run.doc.sms) = 3
    /\ parse_run.outcomes[1] # None
    /\ parse_run.outcomes[2] = None
    /\ parse_run.outcomes[3] # None
    /\ Len(parse_run.transactions) = 2

-----------------------------------------------------------------------------
(* generate_transaction_id under any sequence of calls.                    *)

\* Records handed to generate_transaction_id: two that agree on the hashed
\* attributes and differ elsewhere, one with another amount, and two that
\* carry an amount only, as an int and as a str.
IdSamples ==
    { [transaction_date |-> IsoFormat(5), amount |-> PyFloat(500),
       sender_phone |-> PyStr(<<"1">>), receiver_phone |-> PyStr(<<"2">>),
       description |-> PyStr(<<"x">>)],
      [transaction_date |-> IsoFormat(5), amount |-> PyFloat(500),
       sender_phone |-> PyStr(<<"1">>), receiver_phone |-> PyStr(<<"2">>),
       description |-> PyStr(<<"x">>), raw_body |-> PyStr(<<"y">>),
       category |-> LitOTHER],
      [transaction_date |-> IsoFormat(5), amount |-> PyFloat(700),
       sender_phone |-> PyStr(<<"1">>), receiver_phone |-> PyStr(<<"2">>),
       description |-> PyStr(<<"x">>)],
      [amount |-> PyInt(5)],
      [amount |-> PyStr(<<"5">>)] }

\* DataCleaner.generate_transaction_id(transaction)
CallGenerateTransactionId(transaction) ==
    /\ Len(id_calls) < MaxCalls
    /\ id_calls' = Append(id_calls, [transaction |-> transaction, now |-> clock,
                                     id |-> GenerateTransactionId(transaction)])
    /\ UNCHANGED <<clock, store, last_insert, dead_letter, parse_run, pipeline, passes, call, writers>>

NextIds ==
    \/ Tick
    \/ \E transaction \in IdSamples : CallGenerateTransactionId(transaction)

SpecIds == Init /\ [][NextIds]_vars

\* Two records agree on the attributes generate_transaction_id hashes.
SameKeyFields(t1, t2) ==
    \A k \in 1..Len(KeyFields) :
        Get(t1, KeyFields[k], EmptyStr) = Get(t2, KeyFields[k], EmptyStr)

\* C10: any two generate_transaction_id calls on records that agree on
\* transaction_date, amount, sender_phone, receiver_phone and description
\* return the same id, whatever the records' other fields and whenever the
\* calls are made; every id returned has 12 characters.
C10_DeterministicIds ==
    /\ \A i \in 1..Len(id_calls) : Len(id_calls[i].id.str) = 12
    /\ \A i, j \in 1..Len(id_calls) :
          SameKeyFields(id_calls[i].transaction, id_calls[j].transaction)
              => id_calls[i].id = id_calls[j].id

\* Two calls at different times, on records that agree on the hashed
\* attributes and differ in another field, returned one id; a third call on
\* a record with another amount returned another id.
C10_Witness ==
    \E i, j, k \in 1..Len(id_calls) :
        /\ id_calls[i].transaction # id_calls[j].transaction
        /\ SameKeyFields(id_calls[i].transaction, id_calls[j].transaction)
        /\ id_calls[i].now # id_calls[j].now
        /\ id_calls[i].id = id_calls[j].id
        /\ id_calls[k].id # id_calls[i].id

\* The hashed attributes on which two records differ
DifferingKeyFields(t1, t2) ==
    {k \in 1..Len(KeyFields) :
        Get(t1, KeyFields[k], EmptyStr) # Get(t2, KeyFields[k], EmptyStr)}

\* C11: two generate_transaction_id calls on records that differ in exactly
\* one of transaction_date, amount, sender_phone, receiver_phone and
\* description (the other four equal) return different ids.
C11_OneFieldChangesId ==
    \A i, j \in 1..Len(id_calls) :
        Cardinality(DifferingKeyFields(id_calls[i].transaction,
                                       id_calls[j].transaction)) = 1
            => id_calls[i].id # id_calls[j].id

-----------------------------------------------------------------------------
(* The DataCleaner's functions, each applied to one argument.              *)

\* The longest run of digits in the phone numbers tried
MaxDigits == 10

\* The calls of function op that wait to be made, one per argument
Pending(op, args) ==
    {[op |-> op, arg |-> a, done |-> FALSE, result |-> None] : a \in args}

\* What comes before the run of digits in the phone numbers tried
PhonePrefixes ==
    { <<>>, <<"0">>, <<"0", " ">>, <<"2", "5", "6">>, <<"2", "5">>,
      <<"+", "2", "5", "6", "-">>, <<"x">> }

\* Arguments of normalize_phone_number: the numbers of the tests, values
\* that are no string, and every prefix followed by a run of one digit.
PhoneSamples ==
    { None, PyInt(772123456), EmptyStr,
      PyStr(<<"0", "7", "7", "2", "1", "2", "3", "4", "5", "6">>),
      PyStr(<<"7", "7", "2", "1", "2", "3", "4", "5", "6">>),
      PyStr(<<"2", "5", "6", "7", "7", "2", "1", "2", "3", "4", "5", "6">>),
      PyStr(<<"+", "2", "5", "6", "7", "7", "2", "1", "2", "3", "4", "5", "6">>),
      PyStr(<<"+", "2", "5", "6", "-", "7", "7", "2", "-", "1", "2", "3", "-", "4", "5", "6">>),
      PyStr(<<"0", "7", "7", "2", " ", "1", "2", "3", " ", "4", "5", "6">>) }
    \cup { PyStr(prefix \o [i \in 1..n |-> d]) :
              prefix \in PhonePrefixes, n \in 0..MaxDigits, d \in {"7", "0"} }

\* The most characters a text tried holds
MaxText == 3

\* Arguments of clean_text: the texts of the test, values that are no string,
\* and every text of up to MaxText characters over a letter, a digit, an
\* underscore, blank, tab, and characters inside and outside the allow-list.
TextSamples ==
    { None, PyInt(5), EmptyStr,
      PyStr(<<" ", " ", "T", "h", "i", "s", " ", " ", " ", "i", "s", " ", " ", " ", "a", " ", " ">>),
      PyStr(<<"T", "e", "x", "t", " ", "@", "s", "p", " ", "#", "c", "h", "!">>) }
    \cup { PyStr(s) : s \in UNION {[1..n -> {"a", "7", "_", " ", "\t", "-", "@"}] : n \in 1..MaxText} }

InitNormalize ==
    /\ clock = 0
    /\ store = <<>>
    /\ last_insert = NoInsert
    /\ dead_letter = NoDeadLetter
    /\ parse_run = Idle
    /\ pipeline = NoPipeline
    /\ passes = NoPasses
    /\ id_calls = <<>>
    /\ call \in Pending("normalize_phone_number", PhoneSamples)
                 \cup Pending("clean_text", TextSamples)
    /\ writers = NoWriters

\* DataCleaner.normalize_phone_number(phone)
CallNormalizePhoneNumber ==
    /\ call.op = "normalize_phone_number" /\ ~call.done
    /\ call' = [call EXCEPT !.done = TRUE, !.result = NormalizePhoneNumber(call.arg)]
    /\ UNCHANGED <<clock, store, last_insert, dead_letter, parse_run, pipeline, passes, id_calls, writers>>

\* DataCleaner.clean_text(text)
CallCleanText ==
    /\ call.op = "clean_text" /\ ~call.done
    /\ call' = [call EXCEPT !.done = TRUE, !.result = CleanText(call.arg)]
    /\ UNCHANGED <<clock, store, last_insert, dead_letter, parse_run, pipeline, passes, id_calls, writers>>

NextNormalize ==
    \/ CallNormalizePhoneNumber
    \/ CallCleanText

SpecNormalize == InitNormalize /\ [][NextNormalize]_vars

\* The digits of a string, in order
DigitsOf(chars) == SelectSeq(chars, IsDigit)

\* The number in international form
International == PyStr(<<"+", "2", "5", "6", "7", "7", "2", "1", "2", "3", "4", "5", "6">>)

\* C12: normalize_phone_number gives '' for an empty or null argument and for
\* one that is no string; for a string with digits D it gives '+' D when D
\* starts with 256, else '+256' and D without its first digit when D has 10
\* digits and starts with 0, else '+256' D when D has 9 digits, else D. The
\* four numbers 0772123456, 772123456, 256772123456 and +256-772-123-456
\* all give +256772123456.
C12_PhoneRules ==
    (call.op = "normalize_phone_number" /\ call.done) =>
        LET phone == call.arg
            Rules(D) ==
                /\ StartsWith(D, <<"2", "5", "6">>) => call.result = PyStr(<<"+">> \o D)
                /\ (~StartsWith(D, <<"2", "5", "6">>) /\ Len(D) = 10 /\ D[1] = "0")
                      => call.result = PyStr(<<"+", "2", "5", "6">> \o SubSeq(D, 2, 10))
                /\ (~StartsWith(D, <<"2", "5", "6">>) /\ Len(D) = 9)
                      => call.result = PyStr(<<"+", "2", "5", "6">> \o D)
                /\ (~StartsWith(D, <<"2", "5", "6">>) /\ Len(D) # 9
                        /\ ~(Len(D) = 10 /\ D[1] = "0"))
                      => call.result = PyStr(D)
        IN  /\ (Kind(phone) # "str" \/ phone = EmptyStr) => call.result = EmptyStr
            /\ (Kind(phone) = "str" /\ phone # EmptyStr) => Rules(DigitsOf(phone.str))
            /\ phone \in { PyStr(<<"0", "7", "7", "2", "1", "2", "3", "4", "5", "6">>),
                           PyStr(<<"7", "7", "2", "1", "2", "3", "4", "5", "6">>),
                           PyStr(<<"2", "5", "6", "7", "7", "2", "1", "2", "3", "4", "5", "6">>),
                           PyStr(<<"+", "2", "5", "6", "-", "7", "7", "2", "-", "1", "2", "3", "-", "4", "5", "6">>) }
                  => call.result = International

\* A number of 9 digits that starts with 256 was normalized: the first rule
\* applied, not the rule for 9 digits.
C12_Witness ==
    /\ call.op = "normalize_phone_number" /\ call.done
    /\ Kind(call.arg) = "str"
    /\ Len(DigitsOf(call.arg.str)) = 9
    /\ StartsWith(DigitsOf(call.arg.str), <<"2", "5", "6">>)
    /\ Len(call.result.str) = 10

-----------------------------------------------------------------------------
(* The TransactionCategorizer's functions, each applied to one argument.   *)

\* A key the record does not carry
Absent == [absent |-> TRUE]

\* The record with the key set, or left out
With(t, key, v) == IF v = Absent THEN t ELSE Put(t, key, v)

\* Descriptions: those of the tests, one keyword alone, keywords in another
\* letter case, no keyword, empty and null
DescriptionSamples ==
    { PyStr(<<"A", "i", "r", "t", "i", "m", "e", " ", "p", "u", "r", "c", "h", "a", "s", "e">>),
      PyStr(<<"C", "r", "e", "d", "i", "t", " ", "t", "o", "p", " ", "u", "p">>),
      PyStr(<<"a", "i", "r", "t", "i", "m", "e">>),
      PyStr(<<"R", "E", "C", "H", "A", "R", "G", "E">>),
      PyStr(<<"S", "e", "n", "t", " ", "m", "o", "n", "e", "y">>),
      PyStr(<<"D", "e", "p", "o", "s", "i", "t">>),
      PyStr(<<"h", "e", "l", "l", "o">>),
      PyStr(<<"W", "a", "t", "e", "r", " ", "b", "i", "l", "l">>),
      EmptyStr, None }

\* Message bodies: those of the tests, bodies with two phrases, a body with
\* a type phrase only, no phrase, empty and null
BodySamples ==
    { PyStr(<<"Y", "o", "u", " ", "h", "a", "v", "e", " ", "s", "e", "n", "t", " ", "5">>),
      PyStr(<<"Y", "o", "u", " ", "h", "a", "v", "e", " ", "r", "e", "c", "e", "i", "v", "e", "d", " ", "5">>),
      PyStr(<<"C", "a", "s", "h", " ", "o", "u", "t", " ", "5">>),
      PyStr(<<"Y", "o", "u", " ", "h", "a", "v", "e", " ", "r", "e", "c", "e", "i", "v", "e", "d", " ", "5", " ", "s", "e", "n", "t", " ", "t", "o", " ", "y", "o", "u">>),
      PyStr(<<"C", "a", "s", "h", " ", "o", "u", "t", ":", " ", "y", "o", "u", " ", "h", "a", "v", "e", " ", "r", "e", "c", "e", "i", "v", "e", "d", " ", "5">>),
      PyStr(<<"c", "r", "e", "d", "i", "t", "e", "d">>),
      PyStr(<<"h", "e", "l", "l", "o">>),
      EmptyStr, None }

\* A Transaction as the Normalizer leaves it: an amount, a date, an id
CleanedSample ==
    [transaction_id |-> IdA, amount |-> PyFloat(5000000), transaction_date |-> IsoFormat(5)]

\* Arguments of categorize_transaction
CategorizeSamples ==
    { With(With(With(With(CleanedSample, "description", d), "raw_body", b),
                "balance_before", bal[1]), "balance_after", bal[2]) :
        d \in DescriptionSamples \cup {Absent},
        b \in BodySamples \cup {Absent},
        bal \in {<<Absent, Absent>>, <<PyFloat(10000), PyFloat(20000)>>} }

\* Batches handed to categorize_transactions: Transactions as the Normalizer
\* leaves them, one of them with a null raw_body, one with a null
\* description and null balances.
BatchRecords ==
    { CleanedSample,
      With(With(CleanedSample, "description", PyStr(<<"S", "e", "n", "t", " ", "m", "o", "n", "e", "y">>)), "raw_body", PyStr(<<"h", "e", "l", "l", "o">>)),
      With(CleanedSample, "raw_body", None),
      With(With(With(CleanedSample, "description", None), "balance_before", None),
           "balance_after", None) }
CategorizeBatches ==
    UNION {[1..n -> BatchRecords] : n \in 0..MaxBatch}

\* A record without keys
EmptyDict == <<>>

\* Balances: those of the tests, zero as an int and as a float, null, absent
BalanceSamples == {Absent, None, PyInt(0), PyFloat(0), PyInt(50000), PyInt(75000)}

\* Arguments of _infer_transaction_type: a record and its category
InferSamples ==
    { [transaction |-> With(With(With(EmptyDict, "balance_before", before),
                                 "balance_after", after), "raw_body", b),
       category |-> c] :
        before \in BalanceSamples, after \in BalanceSamples,
        b \in {Absent, PyStr(<<"M", "o", "n", "e", "y", " ", "s", "e", "n", "t">>), PyStr(<<"Y", "o", "u", " ", "h", "a", "v", "e", " ", "r", "e", "c", "e", "i", "v", "e", "d", " ", "5">>), PyStr(<<"h", "e", "l", "l", "o">>)},
        c \in {LitOTHER, PyStr(<<"T", "R", "A", "N", "S", "F", "E", "R">>), PyStr(<<"D", "E", "P", "O", "S", "I", "T">>)} }

\* Arguments of _categorize_by_amount: each threshold, the amounts a
\* hundredth and a unit beside it, as floats and as ints, and zero, a
\* negative amount, nan and the infinities
AmountSamples ==
    UNION { { PyFloat(t - 100), PyFloat(t - 1), PyFloat(t), PyFloat(t + 1), PyFloat(t + 100),
              PyInt(t \div 100), PyInt((t \div 100) + 1) } :
            t \in {AMOUNT_THRESHOLDS.SMALL, AMOUNT_THRESHOLDS.MEDIUM, AMOUNT_THRESHOLDS.LARGE} }
    \cup { PyFloat(0), PyInt(0), PyFloat(-100), PyNaN, [inf |-> 1], [inf |-> -1] }

\* The last day of the instants tried
MaxDay == 1

\* The first and the last millisecond of every hour of every day tried
Instants ==
    { (d * 86400000) + (h * 3600000) + ms :
        d \in 0..MaxDay, h \in 0..23, ms \in {0, 3599999} }

\* Arguments of _categorize_by_time: the ISO rendering of every instant, a
\* date in another form, a text that is no date, a number, '' and null
DateSamples ==
    { IsoFormat(t) : t \in Instants }
    \cup { PyStr(<<"D", "5">>), PyStr(<<"x">>), PyInt(5), EmptyStr, None }

InitCategorize ==
    /\ clock = 0
    /\ store = <<>>
    /\ last_insert = NoInsert
    /\ dead_letter = NoDeadLetter
    /\ parse_run = Idle
    /\ pipeline = NoPipeline
    /\ passes = NoPasses
    /\ id_calls = <<>>
    /\ call \in Pending("categorize_transaction", CategorizeSamples)
                \cup Pending("categorize_transactions", CategorizeBatches)
                \cup Pending("_categorize_by_description", DescriptionSamples)
                \cup Pending("_infer_transaction_type", InferSamples)
                \cup Pending("_categorize_by_amount", AmountSamples)
                \cup Pending("_categorize_by_time", DateSamples)
    /\ writers = NoWriters

\* TransactionCategorizer.categorize_transaction(transaction)
CallCategorizeTransaction ==
    /\ call.op = "categorize_transaction" /\ ~call.done
    /\ call' = [call EXCEPT !.done = TRUE, !.result = CategorizeTransaction(call.arg)]
    /\ UNCHANGED <<clock, store, last_insert, dead_letter, parse_run, pipeline, passes, id_calls, writers>>

\* TransactionCategorizer.categorize_transactions(transactions)
CallMethodCategorizeTransactions ==
    /\ call.op = "categorize_transactions" /\ ~call.done
    /\ call' = [call EXCEPT !.done = TRUE, !.result = CategorizeTransactions(call.arg)]
    /\ UNCHANGED <<clock, store, last_insert, dead_letter, parse_run, pipeline, passes, id_calls, writers>>

\* TransactionCategorizer._categorize_by_description(description)
CallCategorizeByDescription ==
    /\ call.op = "_categorize_by_description" /\ ~call.done
    /\ call' = [call EXCEPT !.done = TRUE, !.result = CategorizeByDescription(call.arg)]
    /\ UNCHANGED <<clock, store, last_insert, dead_letter, parse_run, pipeline, passes, id_calls, writers>>

\* TransactionCategorizer._infer_transaction_type(transaction, category)
CallInferTransactionType ==
    /\ call.op = "_infer_transaction_type" /\ ~call.done
    /\ call' = [call EXCEPT !.done = TRUE, !.result = InferTransactionType(call.arg.transaction, call.arg.category)]
    /\ UNCHANGED <<clock, store, last_insert, dead_letter, parse_run, pipeline, passes, id_calls, writers>>

\* TransactionCategorizer._categorize_by_amount(amount)
CallCategorizeByAmount ==
    /\ call.op = "_categorize_by_amount" /\ ~call.done
    /\ call' = [call EXCEPT !.done = TRUE, !.result = CategorizeByAmount(call.arg)]
    /\ UNCHANGED <<clock, store, last_insert, dead_letter, parse_run, pipeline, passes, id_calls, writers>>

\* TransactionCategorizer._categorize_by_time(transaction_date)
CallCategorizeByTime ==
    /\ call.op = "_categorize_by_time" /\ ~call.done
    /\ call' = [call EXCEPT !.done = TRUE, !.result = CategorizeByTime(call.arg)]
    /\ UNCHANGED <<clock, store, last_insert, dead_letter, parse_run, pipeline, passes, id_calls, writers>>

NextCategorize ==
    \/ CallCategorizeTransaction
    \/ CallMethodCategorizeTransactions
    \/ CallCategorizeByDescription
    \/ CallInferTransactionType
    \/ CallCategorizeByAmount
    \/ CallCategorizeByTime

SpecCategorize == InitCategorize /\ [][NextCategorize]_vars

\* The categories and the types a Transaction can have
CategoryNames ==
    {PyStr(TRANSACTION_CATEGORIES[k].category) : k \in 1..Len(TRANSACTION_CATEGORIES)}
TypeNames == {PyStr(<<"D", "E", "B", "I", "T">>), PyStr(<<"C", "R", "E", "D", "I", "T">>), LitUNKNOWN}

\* The lowered text of a value, empty for a value that is no string
LowerText(v) == IF Kind(v) = "str" THEN Lower(v.str) ELSE <<>>

\* The entries of the keyword table, OTHER left out, with a keyword in text
KeywordMatches(text) ==
    {k \in 1..Len(TRANSACTION_CATEGORIES) :
        /\ PyStr(TRANSACTION_CATEGORIES[k].category) # LitOTHER
        /\ \E j \in 1..Len(TRANSACTION_CATEGORIES[k].keywords) :
              Contains(text, Lower(TRANSACTION_CATEGORIES[k].keywords[j]))}

\* C13: categorize_transaction returns the record with category set to the
\* first category of the keyword table with a keyword in the description,
\* in any letter case; with no such category, to what the body heuristics
\* give for raw_body; and to OTHER when they give nothing. The category is
\* one of the table's and the type one of DEBIT, CREDIT and UNKNOWN.
C13_CategoryByPrecedence ==
    (call.op = "categorize_transaction" /\ call.done) =>
        LET matches == KeywordMatches(LowerText(Get(call.arg, "description", EmptyStr)))
            by_body == CategorizeByBody(Get(call.arg, "raw_body", EmptyStr))
        IN  /\ ~Raised(call.result)
            /\ call.result.category \in CategoryNames
            /\ call.result.transaction_type \in TypeNames
            /\ \A k \in matches :
                  (\A j \in matches : k <= j)
                      => call.result.category = PyStr(TRANSACTION_CATEGORIES[k].category)
            /\ (matches = {} /\ by_body # EmptyStr) => call.result.category = by_body
            /\ (matches = {} /\ by_body = EmptyStr) => call.result.category = LitOTHER

\* The record came back with this category and this type.
Yields(result, category, transaction_type) ==
    /\ ~Raised(result)
    /\ result.category = PyStr(category)
    /\ result.transaction_type = PyStr(transaction_type)

\* The phrases of the claim on message bodies
YouHaveSent == <<"y", "o", "u", " ", "h", "a", "v", "e", " ", "s", "e", "n", "t">>
YouHaveReceived == <<"y", "o", "u", " ", "h", "a", "v", "e", " ", "r", "e", "c", "e", "i", "v", "e", "d">>
CashOut == <<"c", "a", "s", "h", " ", "o", "u", "t">>

\* C14 as stated: for every transaction, a raw body containing 'you have
\* sent' yields TRANSFER and DEBIT, one containing 'you have received' yields
\* DEPOSIT and CREDIT, and one containing 'cash out' yields WITHDRAWAL and
\* DEBIT.
C14_BodyPhrases ==
    (call.op = "categorize_transaction" /\ call.done) =>
        LET body == LowerText(Get(call.arg, "raw_body", EmptyStr))
        IN  /\ Contains(body, YouHaveSent)
                  => Yields(call.result, <<"T", "R", "A", "N", "S", "F", "E", "R">>, <<"D", "E", "B", "I", "T">>)
            /\ Contains(body, YouHaveReceived)
                  => Yields(call.result, <<"D", "E", "P", "O", "S", "I", "T">>, <<"C", "R", "E", "D", "I", "T">>)
            /\ Contains(body, CashOut)
                  => Yields(call.result, <<"W", "I", "T", "H", "D", "R", "A", "W", "A", "L">>, <<"D", "E", "B", "I", "T">>)

\* C14 amended: for every transaction whose description holds no keyword of
\* the table, a raw body containing 'you have sent' yields TRANSFER and
\* DEBIT; one containing 'you have received' and neither 'you have sent' nor
\* 'sent to' yields DEPOSIT and CREDIT; one containing 'cash out' and none of
\* 'you have sent', 'sent to', 'you have received' and 'received from' yields
\* WITHDRAWAL and DEBIT. Letter case does not count.
C14_BodyPhrasesByPrecedence ==
    (call.op = "categorize_transaction" /\ call.done
        /\ KeywordMatches(LowerText(Get(call.arg, "description", EmptyStr))) = {}) =>
        LET body == LowerText(Get(call.arg, "raw_body", EmptyStr))
            transfer == Contains(body, YouHaveSent) \/ Contains(body, <<"s", "e", "n", "t", " ", "t", "o">>)
            deposit == Contains(body, YouHaveReceived)
                          \/ Contains(body, <<"r", "e", "c", "e", "i", "v", "e", "d", " ", "f", "r", "o", "m">>)
        IN  /\ Contains(body, YouHaveSent)
                  => Yields(call.result, <<"T", "R", "A", "N", "S", "F", "E", "R">>, <<"D", "E", "B", "I", "T">>)
            /\ (Contains(body, YouHaveReceived) /\ ~transfer)
                  => Yields(call.result, <<"D", "E", "P", "O", "S", "I", "T">>, <<"C", "R", "E", "D", "I", "T">>)
            /\ (Contains(body, CashOut) /\ ~transfer /\ ~deposit)
                  => Yields(call.result, <<"W", "I", "T", "H", "D", "R", "A", "W", "A", "L">>, <<"D", "E", "B", "I", "T">>)

\* A record without description whose body reads 'You have received 5' came
\* back as a DEPOSIT and a CREDIT.
C14_Witness ==
    /\ call.op = "categorize_transaction" /\ call.done
    /\ "description" \notin DOMAIN call.arg
    /\ Get(call.arg, "raw_body", EmptyStr) = PyStr(<<"Y", "o", "u", " ", "h", "a", "v", "e", " ", "r", "e", "c", "e", "i", "v", "e", "d", " ", "5">>)
    /\ Yields(call.result, <<"D", "E", "P", "O", "S", "I", "T">>, <<"C", "R", "E", "D", "I", "T">>)

\* The keywords of category AIRTIME in the keyword table
AirtimeKeywords ==
    LET k == CHOOSE i \in 1..Len(TRANSACTION_CATEGORIES) :
                 TRANSACTION_CATEGORIES[i].category = <<"A", "I", "R", "T", "I", "M", "E">>
    IN  {TRANSACTION_CATEGORIES[k].keywords[j] :
            j \in 1..Len(TRANSACTION_CATEGORIES[k].keywords)}

\* C15: _categorize_by_description gives AIRTIME for every description that
\* contains one of the AIRTIME keywords airtime, credit and recharge, in any
\* letter case, such as 'Airtime purchase' and 'Credit top up'.
C15_AirtimeKeywords ==
    (call.op = "_categorize_by_description" /\ call.done) =>
        ((\E keyword \in AirtimeKeywords :
              Contains(LowerText(call.arg), Lower(keyword)))
            => call.result = PyStr(<<"A", "I", "R", "T", "I", "M", "E">>))

\* The record carries the balance: the key is there and holds a number.
Carries(t, key) == key \in DOMAIN t /\ Kind(t[key]) \in {"int", "float"}

\* C16: for category OTHER and a record that carries balance_before and
\* balance_after, a balance of 0 included, _infer_transaction_type gives
\* CREDIT when balance_after > balance_before and DEBIT when balance_after <
\* balance_before, whatever the body says.
C16_BalanceDelta ==
    (call.op = "_infer_transaction_type" /\ call.done
        /\ call.arg.category = LitOTHER
        /\ Carries(call.arg.transaction, "balance_before")
        /\ Carries(call.arg.transaction, "balance_after")) =>
        LET before == Hundredths(call.arg.transaction.balance_before)
            after == Hundredths(call.arg.transaction.balance_after)
        IN  /\ after > before => call.result = PyStr(<<"C", "R", "E", "D", "I", "T">>)
            /\ after < before => call.result = PyStr(<<"D", "E", "B", "I", "T">>)

\* The categorized record is the record with the four annotations added.
Annotates(categorized, transaction) ==
    /\ DOMAIN categorized = DOMAIN transaction
           \cup {"category", "transaction_type", "amount_category", "time_category"}
    /\ \A f \in DOMAIN transaction : categorized[f] = transaction[f]

\* C17: categorize_transactions returns, for every sequence of Transactions
\* the Normalizer lets through, records with a null or absent description,
\* raw_body or balance included, one annotated record per record in the
\* order of the input; it raises nothing.
C17_NeverRaises ==
    (call.op = "categorize_transactions" /\ call.done) =>
        /\ ~Raised(call.result)
        /\ Len(call.result.categorized) = Len(call.arg)
        /\ \A i \in 1..Len(call.arg) : Annotates(call.result.categorized[i], call.arg[i])

\* amount <= t and amount > t for a number that is not nan; t in hundredths
AtMost(amount, t) ==
    IF Kind(amount) = "inf" THEN amount.inf < 0 ELSE Hundredths(amount) <= t
Above(amount, t) ==
    IF Kind(amount) = "inf" THEN amount.inf > 0 ELSE Hundredths(amount) > t

TimeBucket(hour) ==
    CASE hour \in 5..11 -> PyStr(<<"M", "O", "R", "N", "I", "N", "G">>)
      [] hour \in 12..16 -> PyStr(<<"A", "F", "T", "E", "R", "N", "O", "O", "N">>)
      [] hour \in 17..20 -> PyStr(<<"E", "V", "E", "N", "I", "N", "G">>)
      [] hour \in (21..23) \cup (0..4) -> PyStr(<<"N", "I", "G", "H", "T">>)

\* C19: _categorize_by_time raises nothing; for the ISO date of an instant
\* in hour h of its day it gives MORNING for h in 5..11, AFTERNOON for 12..16,
\* EVENING for 17..20 and NIGHT for 21..23 and 0..4; for a null or empty
\* date and for one it cannot parse it gives UNKNOWN.
C19_TimeBuckets ==
    (call.op = "_categorize_by_time" /\ call.done) =>
        /\ ~Raised(call.result)
        /\ \A d \in 0..MaxDay, h \in 0..23, ms \in {0, 3599999} :
              call.arg = IsoFormat((d * 86400000) + (h * 3600000) + ms)
                  => call.result = TimeBucket(h)
        /\ call.arg \notin {IsoFormat(t) : t \in Instants} => call.result = LitUNKNOWN

\* The last millisecond of hour 4 of the second day was put in NIGHT.
C19_Witness ==
    /\ call.op = "_categorize_by_time" /\ call.done
    /\ call.arg = IsoFormat(86400000 + (4 * 3600000) + 3599999)
    /\ call.result = PyStr(<<"N", "I", "G", "H", "T">>)

-----------------------------------------------------------------------------
(* Batches of raw records passed through clean_and_normalize_data,         *)
(* categorize_transactions and load_transactions_to_db, pass after pass.   *)

\* Raw records without a transaction_id: one with a date dateutil parses,
\* one with a date it does not, and records whose amount is zero, negative,
\* unparsable and 'nan'.
RawSamples ==
    { [amount |-> PyStr(<<"5">>), transaction_date |-> PyStr(<<"D", "5">>),
       description |-> PyStr(<<"s", "e", "n", "t">>)],
      [amount |-> PyInt(7), transaction_date |-> PyStr(<<"x">>)],
      [amount |-> PyInt(0), transaction_date |-> PyStr(<<"D", "6">>)],
      [amount |-> PyStr(<<"-", "5">>), transaction_date |-> PyStr(<<"D", "7">>)],
      [amount |-> PyStr(<<"x">>), transaction_date |-> PyStr(<<"D", "8">>)],
      [amount |-> PyStr(<<"n", "a", "n">>), transaction_date |-> PyStr(<<"D", "9">>)] }

RawBatches == UNION {[1..n -> RawSamples] : n \in 1..MaxBatch}

\* clean_and_normalize_data(batch) starts a pass.
CallCleanAndNormalizeData(batch) ==
    LET Done(r) ==
            passes' = [passes EXCEPT !.pc = IF Raised(r) THEN "raised" ELSE "cleaned",
                                     !.batch = batch,
                                     !.data = IF Raised(r) THEN <<>> ELSE r.valid]
    IN  /\ passes.pc = "idle"
        /\ Len(passes.log) < MaxPasses
        /\ Done(CleanAndNormalizeData(batch, clock))
        /\ UNCHANGED <<clock, store, last_insert, dead_letter, parse_run, pipeline, id_calls, call, writers>>

\* categorize_transactions on the output of clean_and_normalize_data
CallCategorizeTransactions ==
    LET Done(r) ==
            passes' = [passes EXCEPT !.pc = IF Raised(r) THEN "raised" ELSE "categorized",
                                     !.data = IF Raised(r) THEN <<>> ELSE r.categorized]
    IN  /\ passes.pc = "cleaned"
        /\ Done(CategorizeTransactions(passes.data))
        /\ UNCHANGED <<clock, store, last_insert, dead_letter, parse_run, pipeline, id_calls, call, writers>>

\* load_transactions_to_db on the output of categorize_transactions ends the
\* pass; the log keeps the pass's batch and the number of rows after it.
CallLoadTransactionsToDb ==
    LET Done(r) ==
            /\ store' = r.rows
            /\ last_insert' = [now |-> clock, n |-> Len(passes.data),
                               rows_at_start |-> Len(store), count |-> r.count,
                               last |-> r.last]
            /\ passes' = [passes EXCEPT !.pc = "idle", !.data = <<>>,
                                         !.log = Append(@, [batch |-> passes.batch,
                                                            loaded |-> passes.data,
                                                            count |-> r.count,
                                                            rows |-> Len(r.rows)])]
    IN  /\ passes.pc = "categorized"
        /\ Done(InsertTransactions(store, passes.data, clock))
        /\ UNCHANGED <<clock, dead_letter, parse_run, pipeline, id_calls, call, writers>>

NextReprocess ==
    \/ Tick
    \/ \E batch \in RawBatches : CallCleanAndNormalizeData(batch)
    \/ CallCategorizeTransactions
    \/ CallLoadTransactionsToDb

SpecReprocess == Init /\ [][NextReprocess]_vars

\* C3: a pass over the batch of the pass before it leaves the store with the
\* number of rows that pass left.
C3_ReprocessingIdempotent ==
    \A k \in 2..Len(passes.log) :
        passes.log[k].batch = passes.log[k - 1].batch
            => passes.log[k].rows = passes.log[k - 1].rows

\* A cleaned record with a non-empty id, a non-empty date and an amount that
\* is strictly positive.
Persistable(t) ==
    /\ \A f \in {"transaction_id", "amount", "transaction_date"} :
           f \in DOMAIN t /\ Truthy(t[f])
    /\ Kind(t.amount) \in {"float", "inf"}
    /\ ~FloatLeZero(t.amount)

\* C9: every record in the output of clean_and_normalize_data has a
\* non-empty transaction_id, a non-empty transaction_date and a strictly
\* positive amount.
C9_OnlyPersistableKept ==
    passes.pc = "cleaned" =>
        \A i \in 1..Len(passes.data) : Persistable(passes.data[i])

-----------------------------------------------------------------------------
(* run_full_pipeline on any document, over a store that may hold rows.     *)

\* An empty store, and the stores that hold one record loaded earlier
InitialStores ==
    {<<>>} \cup {InsertTransactions(<<>>, <<t>>, 0).rows : t \in TxSamples}

InitPipeline ==
    /\ clock = 0
    /\ store \in InitialStores
    /\ last_insert = NoInsert
    /\ dead_letter = NoDeadLetter
    /\ parse_run = Idle
    /\ pipeline = NoPipeline
    /\ passes = NoPasses
    /\ id_calls = <<>>
    /\ call = NoCall
    /\ writers = NoWriters

\* The pipeline after a step: the step joins those executed, with the
\* number of records it produced. An exception of the step ends the run
\* (run_full_pipeline raises a ClickException).
AfterStep(step, r, data, pc) ==
    IF Raised(r)
    THEN [pipeline EXCEPT !.pc = "raised", !.steps = Append(@, step), !.data = <<>>]
    ELSE [pipeline EXCEPT !.pc = pc, !.steps = Append(@, step),
                          !.counts = Append(@, Len(data)), !.data = data]

\* Step 1: parse_sms_transactions(xml_file). With no transaction parsed the
\* pipeline returns at once.
PipelineParse(doc) ==
    LET Started(after) == [after EXCEPT !.doc = doc, !.store_at_start = store]
        Done(r, raw_transactions) ==
            /\ pipeline' = Started(AfterStep("parse", r, raw_transactions,
                                              IF raw_transactions = <<>> THEN "returned"
                                              ELSE "parsed"))
            /\ dead_letter' = IF Raised(r) THEN dead_letter ELSE r.files
        Parsed(r) == Done(r, IF Raised(r) THEN <<>> ELSE r.transactions)
    IN  /\ pipeline.pc = "idle"
        /\ Parsed(ParseSmsTransactions(doc, dead_letter, clock))
        /\ UNCHANGED <<clock, store, last_insert, parse_run, passes, id_calls, call, writers>>

\* Step 2: clean_and_normalize_data(raw_transactions)
PipelineClean ==
    LET Done(r) ==
            pipeline' = AfterStep("clean", r, IF Raised(r) THEN <<>> ELSE r.valid, "cleaned")
    IN  /\ pipeline.pc = "parsed"
        /\ Done(CleanAndNormalizeData(pipeline.data, clock))
        /\ UNCHANGED <<clock, store, last_insert, dead_letter, parse_run, passes, id_calls, call, writers>>

\* Step 3: categorize_transactions(clean_transactions)
PipelineCategorize ==
    LET Done(r) ==
            pipeline' = AfterStep("categorize", r,
                                  IF Raised(r) THEN <<>> ELSE r.categorized, "categorized")
    IN  /\ pipeline.pc = "cleaned"
        /\ Done(CategorizeTransactions(pipeline.data))
        /\ UNCHANGED <<clock, store, last_insert, dead_letter, parse_run, passes, id_calls, call, writers>>

\* Step 4: load_transactions_to_db(categorized_transactions); the count of
\* the step is the count insert_transactions returns.
PipelineLoad ==
    LET Done(r) ==
            /\ store' = r.rows
            /\ last_insert' = [now |-> clock, n |-> Len(pipeline.data),
                               rows_at_start |-> Len(store), count |-> r.count,
                               last |-> r.last]
            /\ pipeline' = [pipeline EXCEPT !.pc = "loaded", !.steps = Append(@, "load"),
                                            !.counts = Append(@, r.count)]
    IN  /\ pipeline.pc = "categorized"
        /\ Done(InsertTransactions(store, pipeline.data, clock))
        /\ UNCHANGED <<clock, dead_letter, parse_run, passes, id_calls, call, writers>>

\* Mutant: the export does not wait for the load.
PipelineExport_BeforeLoad ==
    /\ pipeline.pc = "categorized"
    /\ pipeline' = [pipeline EXCEPT !.steps = Append(@, "export"),
                                    !.exported = [generated_at |-> IsoFormat(clock),
                                                  total_transactions |-> Len(store)]]
    /\ UNCHANGED <<clock, store, last_insert, dead_letter, parse_run, passes, id_calls, call, writers>>

\* Step 5: export_dashboard_data(output_json). The metadata of the export
\* holds the time and get_analytics_data's total_transactions, the COUNT(*)
\* of the table.
PipelineExport ==
    /\ pipeline.pc = "loaded"
    /\ pipeline' = [pipeline EXCEPT !.pc = "done", !.steps = Append(@, "export"),
                                    !.exported = [generated_at |-> IsoFormat(clock),
                                                  total_transactions |-> Len(store)]]
    /\ UNCHANGED <<clock, store, last_insert, dead_letter, parse_run, passes, id_calls, call, writers>>

NextPipeline ==
    \/ Tick
    \/ \E doc \in Documents : PipelineParse(doc)
    \/ PipelineClean
    \/ PipelineCategorize
    \/ PipelineLoad
    \/ PipelineExport

SpecPipeline == InitPipeline /\ [][NextPipeline]_vars

\* The number of well-formed sms entries of a document
WellFormedCount(doc) == Len(WellFormedRecords(doc.sms, 0))

\* C4: a completed run_full_pipeline on a document with N well-formed
\* entries parsed N records, kept N, categorized N and loaded N, and on a
\* store that was empty the exported total_transactions is N.
C4_EndToEndCounts ==
    pipeline.pc = "done" =>
        LET N == WellFormedCount(pipeline.doc)
        IN  /\ pipeline.counts = <<N, N, N, N>>
            /\ pipeline.store_at_start = <<>> => pipeline.exported.total_transactions = N

\* A source the pre-flight check rejects: no sms entry, a malformed
\* document, or no file.
RejectedSource(doc) == doc.kind # "xml" \/ doc.sms = <<>>

C24_StageOrder ==
    LET order == <<"parse", "clean", "categorize", "load", "export">>
        n == Len(pipeline.steps)
    IN  /\ n <= Len(order) /\ pipeline.steps = SubSeq(order, 1, n)
        /\ pipeline.pc \notin {"idle", "raised"} =>
              /\ Len(pipeline.counts) = (IF n = 5 THEN 4 ELSE n)
              /\ n = 1 + (CASE pipeline.pc = "parsed" -> 0 [] pipeline.pc = "cleaned" -> 1
                            [] pipeline.pc = "categorized" -> 2 [] pipeline.pc = "loaded" -> 3
                            [] pipeline.pc = "done" -> 4 [] OTHER -> 0)
        /\ (n >= 1 /\ pipeline.pc # "raised" /\ pipeline.counts[1] = 0) =>
              /\ pipeline.pc = "returned"
              /\ pipeline.steps = <<"parse">>
              /\ store = pipeline.store_at_start
              /\ pipeline.exported = None

\* C24 witness: a run went through all five steps.
C24_Witness ==
    /\ pipeline.pc = "done"
    /\ pipeline.steps = <<"parse", "clean", "categorize", "load", "export">>
    /\ pipeline.counts[1] > 0

\* C25: the text clean_text returns has no two whitespace characters in a
\* row, neither starts nor ends with whitespace, holds only letters, digits,
\* underscores, whitespace and the characters -.,() and is left as it is by a
\* second clean_text.
C25_CleanTextNormalForm ==
    (call.op = "clean_text" /\ call.done) =>
        LET Allowed(c) ==
                IsLetter(c) \/ IsDigit(c) \/ IsSpace(c) \/ c \in {"_", "-", ".", ",", "(", ")"}
            Normal(out) ==
                /\ \A i \in 1..Len(out) : Allowed(out[i])
                /\ \A i \in 1..(Len(out) - 1) : ~(IsSpace(out[i]) /\ IsSpace(out[i + 1]))
                /\ out # <<>> => ~IsSpace(out[1]) /\ ~IsSpace(out[Len(out)])
        IN  /\ Kind(call.result) = "str"
            /\ Normal(call.result.str)
            /\ CleanText(call.result) = call.result

-----------------------------------------------------------------------------
(* The callers of get_analytics_data.                                      *)

\* Mutant: the endpoint does not look whether the dict is empty.
GetAnalytics_NoCheck(analytics_data) ==
    [status |-> 200,
     total_transactions |-> Get(analytics_data, "total_transactions", PyInt(0)),
     total_amount |-> Get(analytics_data, "total_amount", PyInt(0)),
     by_category |-> Get(analytics_data, "by_category", <<>>)]

\* GET /analytics: 404 for a dict that is false (empty), else the summary
\* (of which the totals and the first breakdown are kept here).
GetAnalytics(analytics_data) ==
    IF DOMAIN analytics_data = {}
    THEN [status |-> 404, detail |-> "No analytics data available"]
    ELSE [status |-> 200,
          total_transactions |-> Get(analytics_data, "total_transactions", PyInt(0)),
          total_amount |-> Get(analytics_data, "total_amount", PyInt(0)),
          by_category |-> Get(analytics_data, "by_category", <<>>)]

\* The analytics command: what it prints first
Analytics(analytics_data) ==
    IF DOMAIN analytics_data = {}
    THEN [echo |-> "No data available for analytics"]
    ELSE [echo |-> "Total Transactions", total_transactions |-> analytics_data.total_transactions]

\* What get_analytics_data returns on the empty table
EmptyTableAnalytics ==
    [total_transactions |-> PyInt(0), total_amount |-> PyInt(0), by_category |-> <<>>,
     by_type |-> <<>>, by_network |-> <<>>, monthly_trends |-> <<>>]

\* C26 as stated: the value a failed get_analytics_data returns is the value
\* it returns on the empty table, and the callers do the same with both.
C26_FailureLooksLikeNoData ==
    (call.op = "get_analytics_data" /\ call.done /\ call.arg = PyBool(TRUE)) =>
        /\ call.result = GetAnalyticsData(<<>>, FALSE)
        /\ GetAnalytics(call.result) = GetAnalytics(GetAnalyticsData(<<>>, FALSE))
        /\ Analytics(call.result) = Analytics(GetAnalyticsData(<<>>, FALSE))

\* C26, amended: a failed get_analytics_data does not raise and returns the
\* empty dict, for which the endpoint answers 404 and the command prints that
\* no data is available; on the empty table it returns zero totals and four
\* empty lists, for which the endpoint answers 200 and the command prints the
\* totals.
C26_FailureReturnsEmptyDict ==
    (call.op = "get_analytics_data" /\ call.done) =>
        /\ call.arg = PyBool(TRUE) =>
              /\ call.result = EmptyDict
              /\ GetAnalytics(call.result).status = 404
              /\ Analytics(call.result).echo = "No data available for analytics"
        /\ (call.arg = PyBool(FALSE) /\ store = <<>>) =>
              /\ call.result = EmptyTableAnalytics
              /\ GetAnalytics(call.result) =
                     [status |-> 200, total_transactions |-> PyInt(0),
                      total_amount |-> PyInt(0), by_category |-> <<>>]
              /\ Analytics(call.result).echo = "Total Transactions"

\* C26 witness: the query failed on the empty table and the call returned {}.
C26_Witness ==
    /\ call.op = "get_analytics_data" /\ call.done /\ call.arg = PyBool(TRUE)
    /\ store = <<>>
    /\ call.result = EmptyDict

\* C29: in every result of get_analytics_data the counts of by_category and
\* the counts of by_type each add up to total_transactions, the number of
\* rows, and the counts of by_network add up to the number of rows whose
\* sender_network is neither NULL nor empty.
C29_BreakdownsPartition ==
    (call.op = "get_analytics_data" /\ call.done /\ call.arg = PyBool(FALSE)) =>
        LET Counted(list) ==
                Cardinality(UNION {{<<i, c>> : c \in 1..list[i].count} : i \in 1..Len(list)})
            WithNetwork ==
                {i \in 1..Len(store) : store[i].sender_network \notin {None, EmptyStr}}
        IN  /\ call.result.total_transactions = PyInt(Len(store))
            /\ Counted(call.result.by_category) = Len(store)
            /\ Counted(call.result.by_type) = Len(store)
            /\ Counted(call.result.by_network) = Cardinality(WithNetwork)
            /\ Cardinality(WithNetwork) <= Len(store)

\* C29 witness: get_analytics_data ran on a table with rows of three
\* categories and two types, some with a network, some with an empty one and
\* some with none.
C29_Witness ==
    /\ call.op = "get_analytics_data" /\ call.done /\ call.arg = PyBool(FALSE)
    /\ Len(call.result.by_category) = 3
    /\ Len(call.result.by_type) = 2
    /\ \E i \in 1..Len(store) : store[i].sender_network = None
    /\ \E i \in 1..Len(store) : store[i].sender_network = EmptyStr
    /\ call.result.by_network # <<>>
    /\ call.result.by_category[1].count > 1

\* C30: the dead-letter directory keeps every record saved to it. A step
\* that writes to it adds a record and leaves every record written before
\* under its name, as it was, also when the step comes in the second of an
\* earlier one.
C30_DeadLetterKeepsRecords ==
    [][dead_letter' # dead_letter =>
          /\ \A name \in DOMAIN dead_letter :
                name \in DOMAIN dead_letter' /\ dead_letter'[name] = dead_letter[name]
          /\ Cardinality(DOMAIN dead_letter') > Cardinality(DOMAIN dead_letter)]_vars

-----------------------------------------------------------------------------
(* Retrieval.                                                              *)

\* C27: get_transactions returns the rows that satisfy every equality
\* filter, latest transaction_date first; with a cap n >= 0 it returns the n
\* latest of them (all of them when they are fewer), without a cap all of
\* them; when the query raises it returns the empty list.
C27_GetTransactions ==
    (call.op = "get_transactions" /\ call.done) =>
        LET Matches(row) ==
                call.arg.filters = None \/
                \A field \in DOMAIN call.arg.filters : row[field] = call.arg.filters[field]
            Holds(out, matching, n) ==
                /\ \A i \in 1..Len(out) : out[i] \in matching
                /\ \A i, j \in 1..Len(out) :
                      i < j => /\ out[i] # out[j]
                               /\ DateKey(out[j].transaction_date)
                                      <= DateKey(out[i].transaction_date)
                /\ \A row \in matching :
                      (\A i \in 1..Len(out) : out[i] # row) =>
                          \A i \in 1..Len(out) :
                              DateKey(row.transaction_date) <= DateKey(out[i].transaction_date)
                /\ Len(out) = IF n = None \/ n.int > Cardinality(matching)
                              THEN Cardinality(matching) ELSE n.int
        IN  IF call.arg.db_error THEN call.result = <<>>
            ELSE Holds(call.result, {store[i] : i \in {j \in 1..Len(store) : Matches(store[j])}},
                       call.arg.limit)

====
